---- MODULE Spec2Model ----
(***************************************************************************)
(* Release-name normalization and tag inference of AATM (La Cale rules).   *)
(*                                                                         *)
(* Strings of the program are modelled as sequences of characters, each    *)
(* character a one-element TLA+ string.  The accented letters that the     *)
(* program treats specially are written "<e'>" (e acute), "<E'>",          *)
(* "<c,>" (c cedilla) and "<C,>"; the backquote is written "<bt>".  An    *)
(* absent (undefined) or empty string field is the empty sequence: the    *)
(* code tests such fields by truthiness only.                              *)
(***************************************************************************)
EXTENDS Integers, Sequences, FiniteSets, TLC

VARIABLES
    pc,          \* position of the scenario being run
    title,       \* raw title handed to normalizeTitle
    once,        \* normalizeTitle(title)
    twice,       \* normalizeTitle(normalizeTitle(title))
    media,       \* the Film / Serie object (the attribute bag)
    name,        \* composed release name
    langParts,   \* language slot of the composed name
    hdrParts,    \* HDR slot of the composed name
    fileName,    \* name of the selected file or directory
    report,      \* MediaInfo JSON of the selected file
    directoryAnalysis, \* result of the directory analysis, if any
    forcedType,  \* media type forced by the user, "" for none
    releaseInfo, \* parseReleaseName(fileName)
    mediaInfo,   \* parseMediaInfo(report)
    detectedType, \* MediaFactory.detectType(...)
    taxonomy,    \* tag categories of the tracker
    autoTags,    \* getAutoTags(taxonomy)
    LaCaleTagCache, \* window.LaCaleTagCache
    calls,       \* the calls of getAutoTags, each with its position
    fetches,     \* number of requests for the tag list sent so far
    torrent,     \* createTorrent: its position and what it has done
    AppState,    \* AppState of the page
    invocations  \* the invocations of startWorkflow, each with its position

vars == <<pc, title, once, twice, media, name, langParts, hdrParts,
          fileName, report, directoryAnalysis, forcedType, releaseInfo,
          mediaInfo, detectedType, taxonomy, autoTags,
          LaCaleTagCache, calls, fetches, torrent, AppState, invocations>>

titleVars == <<title, once, twice>>
nameVars == <<media, name, langParts, hdrParts>>
inputVars == <<fileName, report, directoryAnalysis, forcedType>>
parseVars == <<releaseInfo, mediaInfo, detectedType>>
tagVars == <<taxonomy, autoTags>>
cacheVars == <<LaCaleTagCache, calls, fetches>>
pageVars == <<torrent, AppState, invocations>>

\* the variables a scenario does not use keep these values
NoFile ==
    /\ fileName = <<>>
    /\ report = <<>>
    /\ directoryAnalysis = [present |-> FALSE]
    /\ forcedType = ""
    /\ releaseInfo = <<>>
    /\ mediaInfo = <<>>
    /\ detectedType = "none"

NoTaxonomy ==
    /\ taxonomy = <<>>
    /\ autoTags = <<>>

NoCalls ==
    /\ LaCaleTagCache = <<>>
    /\ calls = <<>>
    /\ fetches = 0

NoPage ==
    /\ torrent = <<>>
    /\ AppState = <<>>
    /\ invocations = <<>>

-----------------------------------------------------------------------------
(* Characters and the string built-ins the code relies on.                 *)

LowerLetters ==
    <<"a","b","c","d","e","f","g","h","i","j","k","l","m",
      "n","o","p","q","r","s","t","u","v","w","x","y","z">>

UpperLetters ==
    <<"A","B","C","D","E","F","G","H","I","J","K","L","M",
      "N","O","P","Q","R","S","T","U","V","W","X","Y","Z">>

DigitChars == {"0","1","2","3","4","5","6","7","8","9"}

LowerSet == {LowerLetters[i] : i \in DOMAIN LowerLetters}
UpperSet == {UpperLetters[i] : i \in DOMAIN UpperLetters}

IsLower(c) == c \in LowerSet
IsUpper(c) == c \in UpperSet

\* the upper-case letter of each lower-case letter, and conversely
UpperOf ==
    [c \in LowerSet |-> UpperLetters[CHOOSE i \in DOMAIN LowerLetters : LowerLetters[i] = c]]
LowerOf ==
    [c \in UpperSet |-> LowerLetters[CHOOSE i \in DOMAIN UpperLetters : UpperLetters[i] = c]]

toUpperCaseChar(c) ==
    IF IsLower(c) THEN UpperOf[c]
    ELSE IF c = "<e'>" THEN "<E'>"
    ELSE IF c = "<c,>" THEN "<C,>"
    ELSE c

toLowerCaseChar(c) ==
    IF IsUpper(c) THEN LowerOf[c]
    ELSE IF c = "<E'>" THEN "<e'>"
    ELSE IF c = "<C,>" THEN "<c,>"
    ELSE c

toUpperCase(s) == [i \in 1..Len(s) |-> toUpperCaseChar(s[i])]
toLowerCase(s) == [i \in 1..Len(s) |-> toLowerCaseChar(s[i])]

\* s.normalize('NFD') followed by the removal of the combining marks: the
\* base letter stays
stripDiacriticChar(c) ==
    IF c = "<e'>" THEN "e"
    ELSE IF c = "<E'>" THEN "E"
    ELSE IF c = "<c,>" THEN "c"
    ELSE IF c = "<C,>" THEN "C"
    ELSE c

stripDiacritics(s) == [i \in 1..Len(s) |-> stripDiacriticChar(s[i])]

\* \s of a regular expression
IsSpace(c) == c = " "

\* s.includes(sub)
includes(s, sub) ==
    \E i \in 0..(Len(s) - Len(sub)) : SubSeq(s, i + 1, i + Len(sub)) = sub

startsWith(s, pre) == Len(s) >= Len(pre) /\ SubSeq(s, 1, Len(pre)) = pre
endsWith(s, suf) ==
    Len(s) >= Len(suf) /\ SubSeq(s, Len(s) - Len(suf) + 1, Len(s)) = suf

\* parts.join(sep)
RECURSIVE join(_, _)
join(parts, sep) ==
    IF Len(parts) = 0 THEN <<>>
    ELSE IF Len(parts) = 1 THEN parts[1]
    ELSE parts[1] \o sep \o join(Tail(parts), sep)

\* s.split(/\s+/): a run of white space separates two words; a leading or a
\* trailing run yields an empty first or last word
RECURSIVE splitFrom(_, _, _)
splitFrom(s, i, cur) ==
    IF i > Len(s) THEN <<cur>>
    ELSE IF IsSpace(s[i])
         THEN IF i > 1 /\ IsSpace(s[i - 1])
              THEN splitFrom(s, i + 1, cur)
              ELSE <<cur>> \o splitFrom(s, i + 1, <<>>)
         ELSE splitFrom(s, i + 1, Append(cur, s[i]))

splitWhitespace(s) == splitFrom(s, 1, <<>>)

-----------------------------------------------------------------------------
(* Title normalization: normalizeTitle (legacy) and Media.normalizeTitle   *)
(* are the same code.                                                      *)

ForbiddenTitleChars == {",", ";", "}", "{", "[", "]", ":"}

capitalizeWord(word) ==
    IF Len(word) = 0 THEN <<>>
    ELSE IF word = toUpperCase(word) /\ Len(word) <= 4 THEN word
    ELSE <<toUpperCaseChar(word[1])>> \o toLowerCase(Tail(word))

\* replace(/\.{2,}/g, '.')
collapseDots(s) ==
    LET keep == {i \in 1..Len(s) : ~(s[i] = "." /\ i > 1 /\ s[i - 1] = ".")}
        Nth(k) == CHOOSE i \in keep : Cardinality({j \in keep : j <= i}) = k
    IN  [k \in 1..Cardinality(keep) |-> s[Nth(k)]]

\* replace(/^\.|\.$/g, ''): one leading and one trailing "."
trimDots(s) ==
    LET a == IF Len(s) > 0 /\ s[1] = "." THEN Tail(s) ELSE s
    IN  IF Len(a) > 0 /\ a[Len(a)] = "." THEN SubSeq(a, 1, Len(a) - 1) ELSE a

normalizeTitle(t) ==
    IF t = <<>> THEN <<>>
    ELSE
      LET a == stripDiacritics(t)
          b == [i \in 1..Len(a) |->
                  IF a[i] = "<c,>" THEN "c" ELSE IF a[i] = "<C,>" THEN "C" ELSE a[i]]
          c == [i \in 1..Len(b) |-> IF b[i] \in {"'", "<bt>"} THEN "." ELSE b[i]]
          d == SelectSeq(c, LAMBDA ch : ch \notin ForbiddenTitleChars)
          e == [i \in 1..Len(d) |-> IF d[i] = "-" THEN "." ELSE d[i]]
          w == splitWhitespace(e)
          f == join([i \in 1..Len(w) |-> capitalizeWord(w[i])], <<".">>)
      IN  trimDots(collapseDots(f))

-----------------------------------------------------------------------------
(* Scenario "title": a title is normalized, and the result normalized      *)
(* again.                                                                  *)

MaxTitleLen == 3

TitleAlphabet == {"a", "b", "U", " ", "-", ":", ".", "<e'>"}

RECURSIVE StringsUpTo(_, _)
StringsUpTo(alphabet, n) ==
    IF n = 0 THEN {<<>>}
    ELSE LET shorter == StringsUpTo(alphabet, n - 1)
         IN  shorter \cup {Append(s, c) : s \in shorter, c \in alphabet}

s_ab_cd == <<"a","b"," ","c","d">>
s_USA_today == <<"U","S","A"," ","t","o","d","a","y">>

TitleInputs == StringsUpTo(TitleAlphabet, MaxTitleLen) \cup {s_ab_cd, s_USA_today}

NoMedia == [type |-> "none"]

InitTitle ==
    /\ pc = "title"
    /\ title \in TitleInputs
    /\ once = <<>>
    /\ twice = <<>>
    /\ media = NoMedia
    /\ name = <<>>
    /\ langParts = <<>>
    /\ hdrParts = <<>>
    /\ NoFile
    /\ NoTaxonomy
    /\ NoCalls
    /\ NoPage

Normalize ==
    /\ pc = "title"
    /\ once' = normalizeTitle(title)
    /\ pc' = "once"
    /\ UNCHANGED <<title, twice, nameVars, inputVars, parseVars, tagVars, cacheVars, pageVars>>

Renormalize ==
    /\ pc = "once"
    /\ twice' = normalizeTitle(once)
    /\ pc' = "twice"
    /\ UNCHANGED <<title, once, nameVars, inputVars, parseVars, tagVars, cacheVars, pageVars>>

NextTitle == Normalize \/ Renormalize

SpecTitle == InitTitle /\ [][NextTitle]_vars

\* C2: normalizeTitle is idempotent: normalizing an already normalized title
\* yields the same string
C2_Idempotent == pc = "twice" => twice = once

\* a multi-word title has been normalized twice
C2_Witness == pc = "twice" /\ title = s_ab_cd

-----------------------------------------------------------------------------
(* String literals of the code.                                            *)

s_VOSTFR == <<"V","O","S","T","F","R">>
s_MULTI == <<"M","U","L","T","I">>
s_MULTi == <<"M","U","L","T","i">>
s_VFF == <<"V","F","F">>
s_VFQ == <<"V","F","Q">>
s_vff == <<"v","f","f">>
s_vfq == <<"v","f","q">>
s_anglais == <<"a","n","g","l","a","i","s">>
s_english == <<"e","n","g","l","i","s","h">>
s_en == <<"e","n">>
s_francais == <<"f","r","a","n","<c,>","a","i","s">>
s_french == <<"f","r","e","n","c","h">>
s_3D == <<"3","D">>
s_iMAX == <<"i","M","A","X">>
s_NoTag == <<"N","o","T","a","g">>
s_TrueHD == <<"T","r","u","e","H","D">>
s_TRUEHD == <<"T","R","U","E","H","D">>
s_EAC3 == <<"E","A","C","3">>
s_E_AC3 == <<"E","-","A","C","3">>
s_DTS == <<"D","T","S">>
s_DTSX == <<"D","T","S",":","X">>
s_Atmos == <<"A","t","m","o","s">>
s_ATMOS == <<"A","T","M","O","S">>
s_x264 == <<"x","2","6","4">>
s_x265 == <<"x","2","6","5">>
s_H264 == <<"H","2","6","4">>
s_H_264 == <<"H",".","2","6","4">>
s_AVC == <<"A","V","C">>
s_H265 == <<"H","2","6","5">>
s_H_265 == <<"H",".","2","6","5">>
s_HEVC == <<"H","E","V","C">>
s_DV == <<"D","V">>
s_DOLBY_VISION == <<"D","O","L","B","Y"," ","V","I","S","I","O","N">>
s_HDR10P == <<"H","D","R","1","0","+">>
s_HDR10 == <<"H","D","R","1","0">>
s_HDR == <<"H","D","R">>
s_HLG == <<"H","L","G">>
s_SDR == <<"S","D","R">>
s_TrueFrench == <<"T","r","u","e","F","r","e","n","c","h">>

-----------------------------------------------------------------------------
(* More string built-ins.                                                  *)

\* a string field is truthy when it is not empty
truthy(s) == s # <<>>

\* the slot of an optional field: [] or [s]
opt(cond, s) == IF cond THEN <<s>> ELSE <<>>

\* list.indexOf(x)
indexOf(list, x) ==
    IF \E i \in 1..Len(list) : list[i] = x
    THEN (CHOOSE i \in 1..Len(list) :
             list[i] = x /\ \A j \in 1..(i - 1) : list[j] # x) - 1
    ELSE -1

\* position of the first occurrence of pat in s, 0 when there is none
firstIndex(s, pat) ==
    LET at == {i \in 1..(Len(s) - Len(pat) + 1) : SubSeq(s, i, i + Len(pat) - 1) = pat}
    IN  IF at = {} THEN 0 ELSE CHOOSE i \in at : \A j \in at : i <= j

\* s.replace(pat, rep) with a string pattern: the first occurrence only
replaceFirst(s, pat, rep) ==
    LET i == firstIndex(s, pat)
    IN  IF i = 0 THEN s
        ELSE SubSeq(s, 1, i - 1) \o rep \o SubSeq(s, i + Len(pat), Len(s))

\* s.replace(/\s+WORD/, ''): the first run of white space followed by word
removeSpacedWord(s, word) ==
    LET EndOfRun(i) == CHOOSE j \in i..Len(s) :
                          /\ \A k \in i..j : IsSpace(s[k])
                          /\ (j = Len(s) \/ ~IsSpace(s[j + 1]))
        at == {i \in 1..Len(s) :
                  /\ IsSpace(s[i])
                  /\ SubSeq(s, EndOfRun(i) + 1, EndOfRun(i) + Len(word)) = word}
    IN  IF at = {} THEN s
        ELSE LET i == CHOOSE i \in at : \A j \in at : i <= j
             IN  SubSeq(s, 1, i - 1) \o SubSeq(s, EndOfRun(i) + Len(word) + 1, Len(s))

\* [...new Set(list)]: the first occurrence of each value, in order
unique(list) ==
    SelectSeq([i \in 1..Len(list) |-> [v |-> list[i], first |-> \A j \in 1..(i - 1) : list[j] # list[i]]],
              LAMBDA e : e.first)

values(entries) == [i \in 1..Len(entries) |-> entries[i].v]

-----------------------------------------------------------------------------
(* The slots of the composed name: the methods of class Media and the      *)
(* functions of the legacy generators.                                     *)

EnglishNames == {s_anglais, s_english, s_en}
KnownLanguageNames == {s_vff, s_vfq, s_francais, s_french, s_anglais, s_english, s_en}

hasEnglish(langs) == \E i \in 1..Len(langs) : toLowerCase(langs[i]) \in EnglishNames
hasVFF(langs) == \E i \in 1..Len(langs) : toLowerCase(langs[i]) = s_vff
hasVFQ(langs) == \E i \in 1..Len(langs) : toLowerCase(langs[i]) = s_vfq
hasFrench(langs) ==
    \E i \in 1..Len(langs) :
        \/ includes(toLowerCase(langs[i]), s_francais)
        \/ includes(toLowerCase(langs[i]), s_french)
otherLanguages(langs) ==
    SelectSeq(langs, LAMBDA l : toLowerCase(l) \notin KnownLanguageNames)

\* the token of an explicit language field
languageFieldToken(language) ==
    IF toUpperCase(language) = s_MULTI THEN s_MULTi ELSE toUpperCase(language)

\* Media.getLanguageParts, after the VOSTFR test
classLanguageRules(m) ==
    IF Len(m.audioLanguages) > 0 THEN
      LET l == m.audioLanguages
          en == hasEnglish(l)
          vff == hasVFF(l)
          vfq == hasVFQ(l)
          fr == hasFrench(l)
          others == otherLanguages(l)
      IN  IF en /\ ~vff /\ ~vfq /\ ~fr /\ Len(others) = 0 THEN <<s_VOSTFR>>
          ELSE IF en /\ (vfq \/ vff) /\ Len(others) = 0 THEN <<s_MULTI>>
          ELSE IF vff /\ vfq /\ ~en /\ ~fr /\ Len(others) = 0 THEN <<s_MULTI>>
          ELSE IF vff /\ ~vfq /\ ~en /\ ~fr /\ Len(others) = 0 THEN <<s_VFF>>
          ELSE IF vfq /\ ~vff /\ ~en /\ ~fr /\ Len(others) = 0 THEN <<s_VFQ>>
          ELSE IF fr /\ ~vff /\ ~vfq /\ Len(others) > 0 THEN <<s_MULTI>>
          ELSE IF fr /\ ~vff /\ ~vfq /\ Len(others) = 0 THEN <<s_VFF>>
          ELSE IF Len(others) > 1 THEN <<s_MULTI>>
          ELSE IF Len(others) = 1 THEN <<toUpperCase(others[1])>>
          ELSE <<>>
    ELSE IF truthy(m.language) THEN <<languageFieldToken(m.language)>>
    ELSE <<>>

\* getLanguageParts without the return that follows the push of 'VOSTFR'
getLanguagePartsNoReturn(m) == opt(m.isVOSTFR, s_VOSTFR) \o classLanguageRules(m)

\* Media.getLanguageParts
getLanguageParts(m) == IF m.isVOSTFR THEN <<s_VOSTFR>> ELSE classLanguageRules(m)

s_QUEBEC_acc == <<"Q","U","<E'>","B","E","C">>
s_QUEBEC == <<"Q","U","E","B","E","C">>
s_CANADIAN == <<"C","A","N","A","D","I","A","N">>
s_CANADA == <<"C","A","N","A","D","A">>
s_QUEBECOIS == <<"Q","U","E","B","E","C","O","I","S">>
s_QUEBECOIS_acc == <<"Q","U","<E'>","B","<E'>","C","O","I","S">>

\* detectFrenchVariant: both remaining branches return 'VFF'
detectFrenchVariant(releaseGroup, tags) ==
    LET searchText == toUpperCase(releaseGroup \o <<" ">> \o join(tags, <<" ">>))
    IN  IF \E w \in {s_VFQ, s_QUEBEC_acc, s_QUEBEC, s_CANADIAN, s_CANADA,
                     s_QUEBECOIS, s_QUEBECOIS_acc} : includes(searchText, w)
        THEN s_VFQ
        ELSE s_VFF

\* generateLanguageParts (legacy)
generateLanguageParts(m) ==
    IF m.isVOSTFR THEN <<s_VOSTFR>>
    ELSE IF Len(m.audioLanguages) > 0 THEN
      LET l == m.audioLanguages
          en == hasEnglish(l)
          vff == hasVFF(l)
          vfq == hasVFQ(l)
          fr == hasFrench(l)
          others == otherLanguages(l)
      IN  IF en /\ ~vff /\ ~vfq /\ ~fr /\ Len(others) = 0 THEN <<s_VOSTFR>>
          ELSE IF en /\ (vfq \/ vff) /\ Len(others) = 0 THEN <<s_MULTI>>
          ELSE IF vff /\ vfq /\ ~en /\ ~fr /\ Len(others) = 0 THEN <<s_MULTI>>
          ELSE IF vff /\ ~vfq /\ ~en /\ ~fr /\ Len(others) = 0 THEN <<s_VFF>>
          ELSE IF vfq /\ ~vff /\ ~en /\ ~fr /\ Len(others) = 0 THEN <<s_VFQ>>
          ELSE IF fr /\ ~vff /\ ~vfq /\ Len(others) > 0 THEN <<s_MULTI>>
          ELSE IF fr /\ ~vff /\ ~vfq /\ Len(others) = 0
               THEN <<toUpperCase(detectFrenchVariant(m.releaseGroup, m.tags))>>
          ELSE IF Len(others) > 1 THEN <<s_MULTI>>
          ELSE IF Len(others) = 1 THEN <<toUpperCase(others[1])>>
          ELSE <<>>
    ELSE IF truthy(m.language) THEN <<languageFieldToken(m.language)>>
    ELSE <<>>

\* generateLanguageInfoParts (legacy)
generateLanguageInfoParts(m) ==
    LET l == m.audioLanguages
        others == SelectSeq(l, LAMBDA x :
                      /\ toLowerCase(x) # s_vff
                      /\ toLowerCase(x) # s_vfq
                      /\ ~includes(toLowerCase(x), s_francais)
                      /\ ~includes(toLowerCase(x), s_french))
    IN  opt(Len(l) > 0 /\ (hasVFF(l) \/ hasVFQ(l)) /\ Len(others) > 0,
            IF hasVFQ(l) THEN s_VFQ ELSE s_TrueFrench)
        \o opt(truthy(m.languageInfo), toUpperCase(m.languageInfo))

hdrOrder == <<s_HDR10P, s_HDR10, s_HDR, s_DV, s_HLG, s_SDR>>

\* h => h.toUpperCase().replace('DOLBY VISION', 'DV')
canonicalHdr(h) == replaceFirst(toUpperCase(h), s_DOLBY_VISION, s_DV)

\* the comparator with its operands exchanged
compareHdrReversed(a, b) == indexOf(hdrOrder, b) - indexOf(hdrOrder, a)

\* (a, b) => hdrOrder.indexOf(a) - hdrOrder.indexOf(b)
compareHdr(a, b) == indexOf(hdrOrder, a) - indexOf(hdrOrder, b)

\* Array.prototype.sort with compareHdr: a stable sort
RECURSIVE sortHdr(_)
sortHdr(list) ==
    IF Len(list) = 0 THEN <<>>
    ELSE LET front == sortHdr(SubSeq(list, 1, Len(list) - 1))
             x == list[Len(list)]
             k == Cardinality({i \in 1..Len(front) : compareHdr(front[i], x) <= 0})
         IN  SubSeq(front, 1, k) \o <<x>> \o SubSeq(front, k + 1, Len(front))

\* Media.getHdrParts, and the HDR slot of the legacy generators
getHdrParts(m) ==
    IF Len(m.hdr) = 0 THEN <<>>
    ELSE sortHdr([i \in 1..Len(m.hdr) |-> canonicalHdr(m.hdr[i])])

\* Media.getResolutionPart, and the resolution slot of the legacy generators
getResolutionPart(m) ==
    IF ~truthy(m.resolution) THEN <<>>
    ELSE LET res == toLowerCase(m.resolution)
         IN  IF endsWith(res, <<"p">>) THEN res ELSE res \o <<"p">>

s_WEB_DL == <<"W","E","B","-","D","L">>
s_WEBDL == <<"W","E","B","D","L">>
s_WEB == <<"W","E","B">>
s_RIP == <<"R","I","P">>
s_WEBRip == <<"W","E","B","R","i","p">>
s_BluRay == <<"B","l","u","R","a","y">>
s_BLU_RAY == <<"B","L","U","-","R","A","Y">>
s_BDRIP == <<"B","D","R","I","P">>
s_BRRIP == <<"B","R","R","I","P">>
s_REMUX == <<"R","E","M","U","X">>
s_HDLight == <<"H","D","L","i","g","h","t">>
s_4KLight == <<"4","K","L","i","g","h","t">>
s_DVDRip == <<"D","V","D","R","i","p">>
s_DVD_RIP == <<"D","V","D","-","R","I","P">>
s_HDTV == <<"H","D","T","V">>
s_DDP == <<"D","D","P">>
s_E_AC_3 == <<"E","-","A","C","-","3">>
s_DD == <<"D","D">>
s_AC_3 == <<"A","C","-","3">>
s_AC3 == <<"A","C","3">>
s_DTSX_plain == <<"D","T","S","X">>

\* the chain of comparisons on source.toLowerCase(), shared by
\* Media.getSourcePart and generateSourcePart
canonicalSource(source) ==
    LET lower == toLowerCase(source)
    IN  IF lower \in {toLowerCase(s_WEB_DL), toLowerCase(s_WEBDL)} THEN s_WEB_DL
        ELSE IF lower = toLowerCase(s_WEBRip) THEN s_WEBRip
        ELSE IF lower \in {toLowerCase(s_BluRay), toLowerCase(s_BLU_RAY),
                           toLowerCase(s_BDRIP), toLowerCase(s_BRRIP)} THEN s_BluRay
        ELSE IF lower = toLowerCase(s_REMUX) THEN s_REMUX
        ELSE IF lower = toLowerCase(s_HDLight) THEN s_HDLight
        ELSE IF lower = toLowerCase(s_4KLight) THEN s_4KLight
        ELSE IF lower = toLowerCase(s_DVDRip) THEN s_DVDRip
        ELSE IF lower = toLowerCase(s_HDTV) THEN s_HDTV
        ELSE source

\* Media.getSourcePart
getSourcePart(m) == IF ~truthy(m.source) THEN <<>> ELSE canonicalSource(m.source)

\* /WEB.RIP/: any one character between WEB and RIP
matchesWebAnyRip(text) ==
    \E i \in 1..(Len(text) - 6) :
        SubSeq(text, i, i + 2) = s_WEB /\ SubSeq(text, i + 4, i + 6) = s_RIP

\* sourcePatterns, in the order of the object's keys
sourcePatterns(text) ==
    <<[source |-> s_REMUX, found |-> includes(text, s_REMUX)],
      [source |-> s_WEB_DL, found |-> includes(text, s_WEB_DL) \/ includes(text, s_WEBDL)],
      [source |-> s_WEB, found |-> text = s_WEB],
      [source |-> s_WEBRip, found |-> includes(text, toUpperCase(s_WEBRip)) \/ matchesWebAnyRip(text)],
      [source |-> s_HDTV, found |-> includes(text, s_HDTV)],
      [source |-> s_HDLight, found |-> includes(text, toUpperCase(s_HDLight))],
      [source |-> s_4KLight, found |-> includes(text, toUpperCase(s_4KLight))],
      [source |-> s_BluRay, found |-> \/ includes(text, toUpperCase(s_BluRay))
                                      \/ includes(text, s_BLU_RAY)
                                      \/ includes(text, s_BDRIP)
                                      \/ includes(text, s_BRRIP)],
      [source |-> s_DVDRip, found |-> includes(text, toUpperCase(s_DVDRip)) \/ includes(text, s_DVD_RIP)]>>

\* generateSourcePart (legacy)
generateSourcePart(m) ==
    LET allText == toUpperCase(m.source \o <<" ">> \o m.releaseGroup \o <<" ">> \o join(m.tags, <<" ">>))
        hits == SelectSeq(sourcePatterns(allText), LAMBDA e : e.found)
        detected == [i \in 1..Len(hits) |-> hits[i].source]
        all == IF truthy(m.source) THEN Append(detected, canonicalSource(m.source)) ELSE detected
    IN  join(values(unique(all)), <<".">>)

\* codec.replace(/\s+ATMOS/, '').replace(/\s+DTS:X/, '')
stripAudioSpecs(codec) == removeSpacedWord(removeSpacedWord(codec, s_ATMOS), s_DTSX)

\* the per-codec mapping of Media.getAudioParts
classAudioCodec(c) ==
    LET codec == toUpperCase(c)
    IN  IF includes(codec, s_TRUEHD) THEN s_TrueHD
        ELSE IF includes(codec, s_E_AC3) \/ includes(codec, s_EAC3) THEN s_EAC3
        ELSE IF codec = s_DTSX THEN s_DTSX
        ELSE IF includes(codec, s_DTS) THEN s_DTS
        ELSE stripAudioSpecs(codec)

\* the per-codec mapping of generateAudioParts
legacyAudioCodec(c) ==
    LET upper == toUpperCase(c)
        codec == IF includes(upper, s_TRUEHD) THEN s_TrueHD
                 ELSE IF upper = s_E_AC3 \o <<" ">> \o s_ATMOS
                         \/ upper = s_EAC3 \o <<" ">> \o s_ATMOS
                         \/ includes(upper, s_E_AC3) THEN s_EAC3
                 ELSE IF upper = s_DTSX THEN s_DTSX
                 ELSE IF includes(upper, s_DTS) THEN s_DTS
                 ELSE upper
    IN  stripAudioSpecs(codec)

\* the Atmos / DTS:X slot, the same code in both generators
audioSpecs(codecs) ==
    LET atmos == \E i \in 1..Len(codecs) : includes(toLowerCase(codecs[i]), toLowerCase(s_Atmos))
        dtsx == \E i \in 1..Len(codecs) :
                    \/ includes(toLowerCase(codecs[i]), toLowerCase(s_DTSX))
                    \/ includes(toLowerCase(codecs[i]), toLowerCase(s_DTSX_plain))
        \* a Set keeps the order of first insertion
        firstAtmos == CHOOSE i \in 1..Len(codecs) :
                          /\ includes(toLowerCase(codecs[i]), toLowerCase(s_Atmos))
                          /\ \A j \in 1..(i - 1) : ~includes(toLowerCase(codecs[j]), toLowerCase(s_Atmos))
        firstDtsx == CHOOSE i \in 1..Len(codecs) :
                          /\ \/ includes(toLowerCase(codecs[i]), toLowerCase(s_DTSX))
                             \/ includes(toLowerCase(codecs[i]), toLowerCase(s_DTSX_plain))
                          /\ \A j \in 1..(i - 1) :
                                 /\ ~includes(toLowerCase(codecs[j]), toLowerCase(s_DTSX))
                                 /\ ~includes(toLowerCase(codecs[j]), toLowerCase(s_DTSX_plain))
        specs == IF atmos /\ dtsx
                 THEN IF firstAtmos <= firstDtsx THEN <<s_Atmos, s_DTSX>> ELSE <<s_DTSX, s_Atmos>>
                 ELSE IF atmos THEN <<s_Atmos>>
                 ELSE IF dtsx THEN <<s_DTSX>>
                 ELSE <<>>
    IN  opt(Len(specs) > 0, join(specs, <<".">>))

\* Media.getAudioParts
getAudioParts(m) ==
    LET codecs == [i \in 1..Len(m.audioCodecs) |-> classAudioCodec(m.audioCodecs[i])]
    IN  opt(Len(m.audioCodecs) > 0, join(values(unique(codecs)), <<".">>))
        \o opt(truthy(m.audioChannels), m.audioChannels)
        \o audioSpecs(m.audioCodecs)

\* generateAudioParts (legacy)
generateAudioParts(m) ==
    LET codecs == [i \in 1..Len(m.audioCodecs) |-> legacyAudioCodec(m.audioCodecs[i])]
        upper == toUpperCase(m.audio)
        a1 == IF upper = s_DDP \/ upper = s_E_AC_3 THEN s_EAC3 ELSE upper
        a2 == IF a1 = s_DD \/ a1 = s_AC_3 THEN s_AC3 ELSE a1
    IN  (IF Len(m.audioCodecs) > 0 THEN <<join(values(unique(codecs)), <<".">>)>>
         ELSE opt(truthy(m.audio), a2))
        \o opt(truthy(m.audioChannels), m.audioChannels)
        \o audioSpecs(m.audioCodecs)
        \o opt(truthy(m.audioSpec), m.audioSpec)

\* Media.getCodecPart, and the codec slot of the legacy generators
getCodecPart(m) ==
    IF ~truthy(m.codec) THEN <<>>
    ELSE LET codec == toUpperCase(m.codec)
         IN  IF codec \in {s_H264, s_H_264, s_AVC} THEN s_x264
             ELSE IF codec \in {s_H265, s_H_265, s_HEVC} THEN s_x265
             ELSE codec

\* the suffix without the default group
withTeamNoDefault(parts, m) == join(parts, <<".">>) \o <<"-">> \o m.releaseGroup

\* `${baseName}-${team}`
withTeam(parts, m) ==
    join(parts, <<".">>) \o <<"-">> \o (IF truthy(m.releaseGroup) THEN m.releaseGroup ELSE s_NoTag)

\* Film.generateName
Film_generateName(m) ==
    withTeam(
        opt(truthy(m.title), normalizeTitle(m.title))
        \o opt(m.threeD, s_3D)
        \o opt(truthy(m.threeDType), m.threeDType)
        \o opt(truthy(m.year), m.year)
        \o opt(truthy(m.info), toUpperCase(m.info))
        \o opt(truthy(m.edition), m.edition)
        \o opt(m.imax, s_iMAX)
        \o getLanguageParts(m)
        \o getHdrParts(m)
        \o opt(truthy(getResolutionPart(m)), getResolutionPart(m))
        \o opt(truthy(m.platform), toUpperCase(m.platform))
        \o opt(truthy(getSourcePart(m)), getSourcePart(m))
        \o getAudioParts(m)
        \o opt(truthy(getCodecPart(m)), getCodecPart(m)),
        m)

\* generateMovieReleaseName (legacy)
generateMovieReleaseName(m) ==
    withTeam(
        opt(truthy(m.title), normalizeTitle(m.title))
        \o opt(m.threeD, s_3D)
        \o opt(truthy(m.threeDType), m.threeDType)
        \o opt(truthy(m.year), m.year)
        \o opt(truthy(m.info), toUpperCase(m.info))
        \o opt(truthy(m.edition), m.edition)
        \o opt(m.imax, s_iMAX)
        \o generateLanguageParts(m)
        \o generateLanguageInfoParts(m)
        \o getHdrParts(m)
        \o opt(truthy(m.resolution), getResolutionPart(m))
        \o opt(truthy(m.platform), toUpperCase(m.platform))
        \o opt(truthy(generateSourcePart(m)), generateSourcePart(m))
        \o generateAudioParts(m)
        \o opt(truthy(m.codec), getCodecPart(m)),
        m)

-----------------------------------------------------------------------------
(* Scenario "name": an attribute bag is composed into a release name, by   *)
(* Film.generateName or by the legacy generateReleaseName(info, 'movie').  *)

s_2019 == <<"2","0","1","9">>
s_GRP == <<"G","R","P">>
s_1080p == <<"1","0","8","0","p">>
s_Dolby_Vision == <<"D","o","l","b","y"," ","V","i","s","i","o","n">>
s_English == <<"E","n","g","l","i","s","h">>
s_Anglais == <<"A","n","g","l","a","i","s">>
s_Francais == <<"F","r","a","n","<c,>","a","i","s">>
s_Japanese == <<"J","a","p","a","n","e","s","e">>
s_Italien == <<"I","t","a","l","i","e","n">>
s_FRENCH == <<"F","R","E","N","C","H">>

\* the fields of a media object after construction (Media, Film and Serie
\* constructors with no options), with the fields only the legacy info has
EmptyBag ==
    [cls |-> "Film", type |-> "movie", path |-> <<>>, title |-> <<>>, year |-> <<>>,
     resolution |-> <<>>, codec |-> <<>>, container |-> <<>>, hdr |-> <<>>,
     audioCodecs |-> <<>>, audioChannels |-> <<>>, audioLanguages |-> <<>>,
     source |-> <<>>, releaseGroup |-> <<>>, edition |-> <<>>, info |-> <<>>,
     language |-> <<>>, isVOSTFR |-> FALSE, imax |-> FALSE, threeD |-> FALSE,
     threeDType |-> <<>>, platform |-> <<>>, genres |-> <<>>,
     season |-> <<>>, episode |-> <<>>, episodeCount |-> 0,
     isComplete |-> FALSE, isPack |-> FALSE,
     tags |-> <<>>, languageInfo |-> <<>>, audio |-> <<>>, audioSpec |-> <<>>,
     subtitleLanguages |-> <<>>]

MaxBagTitleLen == 2
MaxHdrLen == 2
MaxLangLen == 2

BagTitleAlphabet == {"a", " ", "-", ":"}

\* bags that vary the title and the fields around it
TitleBags ==
    {[EmptyBag EXCEPT !.title = t, !.year = y, !.hdr = h, !.audioCodecs = a,
                      !.releaseGroup = g, !.imax = x]
        : t \in StringsUpTo(BagTitleAlphabet, MaxBagTitleLen),
          y \in {<<>>, s_2019},
          h \in {<<>>, << <<>> >>, <<s_HDR>>},
          a \in {<<>>, << <<>> >>, <<s_AC3>>},
          g \in {<<>>, s_GRP},
          x \in BOOLEAN}

\* the known HDR vocabulary, with the spellings the code canonicalizes
HdrSpellings ==
    {s_HDR10P, s_HDR10, s_HDR, s_DV, s_HLG, s_SDR,
     s_Dolby_Vision, toLowerCase(s_HDR10), toLowerCase(s_DV)}

\* a label outside the vocabulary
UnknownHdrLabels == {<<"P","Q">>}

\* bags that vary the HDR list
HdrBags ==
    {[EmptyBag EXCEPT !.title = <<"a">>, !.hdr = h, !.resolution = r]
        : h \in StringsUpTo(HdrSpellings \cup UnknownHdrLabels, MaxHdrLen),
          r \in {<<>>, s_1080p}}

LanguageNames ==
    {s_English, s_Anglais, s_VFF, s_VFQ, s_Francais, s_Japanese, s_Italien}

LanguageLists == StringsUpTo(LanguageNames, MaxLangLen)

\* bags that vary the inputs of the language slot
LanguageBags ==
    {[EmptyBag EXCEPT !.title = <<"a">>, !.isVOSTFR = v, !.audioLanguages = l,
                      !.language = f, !.releaseGroup = g]
        : v \in BOOLEAN,
          l \in LanguageLists,
          f \in {<<>>, s_FRENCH, toLowerCase(s_MULTI)},
          g \in {<<>>, s_GRP, s_QUEBEC}}

InitName ==
    /\ pc = "bag"
    /\ media \in TitleBags \cup HdrBags \cup LanguageBags
    /\ name = <<>>
    /\ langParts = <<>>
    /\ hdrParts = <<>>
    /\ title = <<>>
    /\ once = <<>>
    /\ twice = <<>>
    /\ NoFile
    /\ NoTaxonomy
    /\ NoCalls
    /\ NoPage

\* currentMedia.generateName() on a Film
GenerateName ==
    /\ pc = "bag"
    /\ name' = Film_generateName(media)
    /\ langParts' = getLanguageParts(media)
    /\ hdrParts' = getHdrParts(media)
    /\ pc' = "named"
    /\ UNCHANGED <<media, titleVars, inputVars, parseVars, tagVars, cacheVars, pageVars>>

\* generateReleaseName(info, 'movie') on the same field values
GenerateReleaseName ==
    /\ pc = "bag"
    /\ name' = generateMovieReleaseName(media)
    /\ langParts' = generateLanguageParts(media)
    /\ hdrParts' = getHdrParts(media)
    /\ pc' = "legacy"
    /\ UNCHANGED <<media, titleVars, inputVars, parseVars, tagVars, cacheVars, pageVars>>

NextName == GenerateName \/ GenerateReleaseName

SpecName == InitName /\ [][NextName]_vars

Composed == pc \in {"named", "legacy"}

\* the release group appended to the name
TeamOf(m) == IF m.releaseGroup # <<>> THEN m.releaseGroup ELSE s_NoTag

\* the composed name without its "-<group>" suffix
BaseName == SubSeq(name, 1, Len(name) - Len(TeamOf(media)) - 1)

\* C1: the composed name holds no two consecutive "." and the part before
\* the "-<group>" suffix neither starts nor ends with "."
C1_NoDanglingSeparator ==
    Composed =>
        /\ ~includes(name, <<".", ".">>)
        /\ ~startsWith(BaseName, <<".">>)
        /\ ~endsWith(BaseName, <<".">>)

\* the priority order of the HDR labels, as the specification gives it
HdrPriority == <<s_HDR10P, s_HDR10, s_HDR, s_DV, s_HLG, s_SDR>>

HdrRank(label) == CHOOSE i \in 1..Len(HdrPriority) : HdrPriority[i] = label

KnownHdrInput == \A i \in 1..Len(media.hdr) : media.hdr[i] \in HdrSpellings

\* C7: for HDR labels of the known vocabulary, in any input order, the HDR
\* tokens of the composed name are in the priority order HDR10+, HDR10, HDR,
\* DV, HLG, SDR; the input [DV, HDR10] is serialized as "HDR10.DV"
C7_HdrPriorityOrder ==
    (Composed /\ KnownHdrInput) =>
        /\ Len(hdrParts) = Len(media.hdr)
        /\ \A i \in 1..Len(hdrParts) : \E k \in 1..Len(HdrPriority) : HdrPriority[k] = hdrParts[i]
        /\ \A i, j \in 1..Len(hdrParts) : i < j => HdrRank(hdrParts[i]) <= HdrRank(hdrParts[j])
        /\ includes(name, join(hdrParts, <<".">>))
        /\ (media.hdr = <<s_DV, s_HDR10>> => join(hdrParts, <<".">>) = s_HDR10 \o <<".">> \o s_DV)

\* the input [DV, HDR10] has been composed
C7_Witness == pc = "named" /\ media.hdr = <<s_DV, s_HDR10>>

\* C8: the language slot holds at most one token, and exactly VOSTFR when
\* the VOSTFR flag is set
C8_AtMostOneLanguageToken ==
    Composed =>
        /\ Len(langParts) <= 1
        /\ (media.isVOSTFR => langParts = <<s_VOSTFR>>)

\* the flag is set on a bag with two audio languages
C8_Witness == pc = "named" /\ media.isVOSTFR /\ Len(media.audioLanguages) = 2

\* the token the ordered table of the specification gives (flag unset)
TableToken(m) ==
    LET l == m.audioLanguages
        en == hasEnglish(l)
        vff == hasVFF(l)
        vfq == hasVFQ(l)
        fr == hasFrench(l)
        n == Len(otherLanguages(l))
    IN  IF en /\ ~vff /\ ~vfq /\ ~fr /\ n = 0 THEN <<s_VOSTFR>>
        ELSE IF en /\ (vfq \/ vff) /\ n = 0 THEN <<s_MULTI>>
        ELSE IF vff /\ vfq /\ ~en /\ ~fr /\ n = 0 THEN <<s_MULTI>>
        ELSE IF vff /\ ~vfq /\ ~en /\ ~fr /\ n = 0 THEN <<s_VFF>>
        ELSE IF vfq /\ ~vff /\ ~en /\ ~fr /\ n = 0 THEN <<s_VFQ>>
        ELSE IF fr /\ ~vff /\ ~vfq /\ n > 0 THEN <<s_MULTI>>
        ELSE IF fr /\ ~vff /\ ~vfq /\ n = 0
             THEN IF includes(toUpperCase(m.releaseGroup), s_QUEBEC) THEN <<s_VFQ>> ELSE <<s_VFF>>
        ELSE IF n > 1 THEN <<s_MULTI>>
        ELSE IF n = 1 THEN <<toUpperCase(otherLanguages(l)[1])>>
        ELSE IF m.language # <<>> THEN <<languageFieldToken(m.language)>>
        ELSE <<>>

\* C9: with the flag unset the language token is the result of the first
\* applicable rule of the ordered table; when no rule applies the explicit
\* language field is used
C9_FirstApplicableRule ==
    (Composed /\ ~media.isVOSTFR) => langParts = TableToken(media)

SetOf(list) == {list[i] : i \in 1..Len(list)}

LanguageSlot(m) == IF pc = "named" THEN getLanguageParts(m) ELSE generateLanguageParts(m)

\* C10: the language slot depends only on the set of audio languages:
\* reordering the list or repeating an entry does not change the token
C10_DependsOnSetOnly ==
    Composed =>
        \A l \in LanguageLists :
            SetOf(l) = SetOf(media.audioLanguages) =>
                LanguageSlot([media EXCEPT !.audioLanguages = l]) = langParts

-----------------------------------------------------------------------------
(* Regular expressions of the parsers, matched character by character.     *)
(* Positions are 1-based; a match "index" of the code is position - 1.     *)

IsDigit(c) == c \in DigitChars

\* \w
IsWordChar(c) == IsLower(c) \/ IsUpper(c) \/ IsDigit(c) \/ c = "_"

\* \b between s[i - 1] and s[i]
wordBoundary(s, i) ==
    (i > 1 /\ i <= Len(s) + 1 /\ IsWordChar(s[i - 1]))
        # (i >= 1 /\ i <= Len(s) /\ IsWordChar(s[i]))

\* the literal lit at position i, letter case ignored (flag i)
matchesAt(s, i, lit) ==
    /\ i >= 1
    /\ i + Len(lit) - 1 <= Len(s)
    /\ toLowerCase(SubSeq(s, i, i + Len(lit) - 1)) = toLowerCase(lit)

\* s contains lit, letter case ignored
includesIgnoreCase(s, lit) == \E i \in 1..Len(s) : matchesAt(s, i, lit)

\* the least position of a set, 0 when it is empty
firstOf(positions) ==
    IF positions = {} THEN 0 ELSE CHOOSE i \in positions : \A j \in positions : i <= j

\* length of the run of digits that starts at position i
RECURSIVE digitRun(_, _)
digitRun(s, i) ==
    IF i < 1 \/ i > Len(s) THEN 0
    ELSE IF IsDigit(s[i]) THEN 1 + digitRun(s, i + 1)
    ELSE 0

\* \d{1,max}\b at position i: the number of digits matched, 0 for no match
digitsThenBoundary(s, i, max) ==
    LET n == digitRun(s, i)
    IN  IF n >= 1 /\ n <= max /\ wordBoundary(s, i + n) THEN n ELSE 0

\* \s? at position i: the position after it
skipOptionalSpace(s, i) == IF i <= Len(s) /\ IsSpace(s[i]) THEN i + 1 ELSE i

\* the first alternative of alts that matches at p and ends on \b, 0 for none
firstAlternative(s, p, alts) ==
    firstOf({k \in 1..Len(alts) :
                matchesAt(s, p, alts[k]) /\ wordBoundary(s, p + Len(alts[k]))})

\* \b(?:w1|w2)\s?(\d{1,max})\b at position p: where the digits start and
\* how many they are (len 0: no match)
prefixedNumberAt(s, p, words, max) ==
    LET tries == [k \in 1..Len(words) |->
                    LET q == skipOptionalSpace(s, p + Len(words[k]))
                    IN  [from |-> q,
                         len |-> IF wordBoundary(s, p) /\ matchesAt(s, p, words[k])
                                 THEN digitsThenBoundary(s, q, max) ELSE 0]]
        k == firstOf({j \in 1..Len(words) : tries[j].len > 0})
    IN  IF k = 0 THEN [from |-> 0, len |-> 0] ELSE tries[k]

\* s.padStart(n, c)
padStart(s, n, c) == [i \in 1..(n - Len(s)) |-> c] \o s

\* s.trim()
trim(s) ==
    LET solid == {i \in 1..Len(s) : ~IsSpace(s[i])}
    IN  IF solid = {} THEN <<>>
        ELSE SubSeq(s, firstOf(solid), CHOOSE i \in solid : \A j \in solid : j <= i)

\* s.replace(/[chars]+$/, '')
stripTrailing(s, chars) ==
    LET keep == {i \in 0..Len(s) : \A k \in (i + 1)..Len(s) : s[k] \in chars}
    IN  SubSeq(s, 1, CHOOSE i \in keep : \A j \in keep : i <= j)

\* s.replace(/c/g, r) for single characters
replaceChar(s, c, r) == [i \in 1..Len(s) |-> IF s[i] = c THEN r ELSE s[i]]

\* the extension of s when it is one of exts (/\.(a|b)$/i), else ''
extensionIn(s, exts) ==
    LET dots == {i \in 1..Len(s) : s[i] = "." /\ toLowerCase(SubSeq(s, i + 1, Len(s))) \in exts}
    IN  IF dots = {} THEN <<>> ELSE SubSeq(s, firstOf(dots) + 1, Len(s))

-----------------------------------------------------------------------------
(* parseReleaseName: the attribute bag read from a file or directory name. *)

s_Season == <<"S","e","a","s","o","n">>
s_Episode == <<"E","p","i","s","o","d","e">>
s_Complete == <<"C","o","m","p","l","e","t","e">>
s_Integrale == <<"I","n","t","e","g","r","a","l","e">>

VideoExtensions == {<<"m","k","v">>, <<"m","p","4">>, <<"a","v","i">>, <<"i","s","o">>}

EbookExtensions ==
    {<<"e","p","u","b">>, <<"p","d","f">>, <<"m","o","b","i">>, <<"a","z","w">>,
     <<"a","z","w","3">>, <<"c","b","r">>, <<"c","b","z">>}

\* /^(2160|1080|720|576|480|4320)p$/i
ResolutionNames ==
    {<<"2","1","6","0","p">>, <<"1","0","8","0","p">>, <<"7","2","0","p">>,
     <<"5","7","6","p">>, <<"4","8","0","p">>, <<"4","3","2","0","p">>}

\* [a-zA-Z0-9\[\]]
IsGroupChar(c) == IsLower(c) \/ IsUpper(c) \/ IsDigit(c) \/ c \in {"[", "]"}

\* the alternatives of patterns.source, in order
sourceAlternatives ==
    <<s_BluRay, s_BluRay, s_BDRIP, s_BRRIP, s_WEBRip, s_WEBRip,
      s_WEB_DL, s_WEBDL, s_WEB, s_HDTV, s_DVDRip>>

\* s without its extension ext
withoutExtension(s, ext) ==
    IF ext = <<>> THEN s ELSE SubSeq(s, 1, Len(s) - Len(ext) - 1)

\* /-([a-zA-Z0-9\[\]]+)$/: position of the "-", 0 for no match
groupMatch(s) ==
    firstOf({i \in 1..(Len(s) - 1) :
                s[i] = "-" /\ \A k \in (i + 1)..Len(s) : IsGroupChar(s[k])})

\* /\b(19|20)\d{2}\b/: position of the first match, 0 for none
yearMatch(s) ==
    firstOf({p \in 1..(Len(s) - 3) :
                /\ wordBoundary(s, p)
                /\ matchesAt(s, p, <<"1","9">>) \/ matchesAt(s, p, <<"2","0">>)
                /\ IsDigit(s[p + 2])
                /\ IsDigit(s[p + 3])
                /\ wordBoundary(s, p + 4)})

\* /\bS(\d{1,2})E(\d{1,3})\b/i at position p
seasonEpisodeAt(s, p) ==
    IF ~(wordBoundary(s, p) /\ matchesAt(s, p, <<"S">>))
    THEN [found |-> FALSE, season |-> <<>>, episode |-> <<>>]
    ELSE LET n1 == digitRun(s, p + 1)
             n2 == digitsThenBoundary(s, p + 2 + n1, 3)
         IN  [found |-> n1 \in 1..2 /\ matchesAt(s, p + 1 + n1, <<"E">>) /\ n2 > 0,
              season |-> SubSeq(s, p + 1, p + n1),
              episode |-> SubSeq(s, p + 2 + n1, p + 1 + n1 + n2)]

seasonEpisodeMatch(s) == firstOf({p \in 1..Len(s) : seasonEpisodeAt(s, p).found})

\* /\b(?:S|Season)\s?(\d{1,2})\b|\b(Complete|Integrale)\b/gi at position p:
\* group 1 (the digits) or group 2 (the word)
seasonAt(s, p) ==
    LET num == prefixedNumberAt(s, p, <<(<<"S">>), s_Season>>, 2)
        word == IF wordBoundary(s, p)
                THEN firstAlternative(s, p, <<s_Complete, s_Integrale>>) ELSE 0
    IN  [found |-> num.len > 0 \/ word > 0,
         digits |-> IF num.len > 0 THEN SubSeq(s, num.from, num.from + num.len - 1) ELSE <<>>,
         word |-> IF num.len = 0 /\ word > 0
                  THEN SubSeq(s, p, p + Len(<<s_Complete, s_Integrale>>[word]) - 1)
                  ELSE <<>>]

seasonMatch(s) == firstOf({p \in 1..Len(s) : seasonAt(s, p).found})

\* /\b(?:E|Episode)\s?(\d{1,3})\b/gi at position p
episodeAt(s, p) == prefixedNumberAt(s, p, <<(<<"E">>), s_Episode>>, 3)

episodeMatch(s) == firstOf({p \in 1..Len(s) : episodeAt(s, p).len > 0})

\* patterns.source at position p: the alternative matched, 0 for none
sourceAt(s, p) ==
    IF wordBoundary(s, p) THEN firstAlternative(s, p, sourceAlternatives) ELSE 0

sourceMatch(s) == firstOf({p \in 1..Len(s) : sourceAt(s, p) > 0})

\* /(?:^|[\.\s\-])VOSTFR(?:[\.\s\-]|$)/i
vostfrMatch(s) ==
    LET Sep(c) == c \in {".", "-"} \/ IsSpace(c)
    IN  \E p \in 1..Len(s) :
            /\ matchesAt(s, p, s_VOSTFR)
            /\ p = 1 \/ Sep(s[p - 1])
            /\ p + 6 > Len(s) \/ Sep(s[p + 6])

\* parseReleaseName(name), without a MediaInfo object
parseReleaseName(rawName) ==
    LET trimmed == trim(rawName)
        noVideo == withoutExtension(trimmed, extensionIn(trimmed, VideoExtensions))
        dash == groupMatch(noVideo)
        potentialGroup == IF dash = 0 THEN <<>> ELSE SubSeq(noVideo, dash + 1, Len(noVideo))
        ebook == extensionIn(noVideo, EbookExtensions)
        cleanName == withoutExtension(noVideo, ebook)
        year == yearMatch(cleanName)
        sxe == seasonEpisodeMatch(cleanName)
        season == IF sxe > 0 THEN 0 ELSE seasonMatch(cleanName)
        episode == IF sxe > 0 THEN 0 ELSE episodeMatch(cleanName)
        source == sourceMatch(cleanName)
        tags == {p - 1 : p \in {year, sxe, season, episode, source} \ {0}}
        \* firstTagIndex starts at the length before the ebook extension goes
        firstTagIndex == firstOf(tags \cup {Len(noVideo)})
        prefix == SubSeq(cleanName, 1,
                         IF firstTagIndex < Len(cleanName) THEN firstTagIndex ELSE Len(cleanName))
        potentialTitle ==
            trim(stripTrailing(replaceChar(replaceChar(prefix, ".", " "), "_", " "),
                               {"-", "(", ")"}))
    IN  [EmptyBag EXCEPT
            !.releaseGroup = IF toLowerCase(potentialGroup) \in ResolutionNames
                             THEN <<>> ELSE potentialGroup,
            !.container = toUpperCase(ebook),
            !.year = IF year = 0 THEN <<>> ELSE SubSeq(cleanName, year, year + 3),
            !.season =
                IF sxe > 0
                THEN <<"S">> \o padStart(seasonEpisodeAt(cleanName, sxe).season, 2, "0")
                ELSE IF season = 0 THEN <<>>
                ELSE IF seasonAt(cleanName, season).word # <<>>
                     THEN toUpperCase(seasonAt(cleanName, season).word)
                ELSE <<"S">> \o padStart(seasonAt(cleanName, season).digits, 2, "0"),
            !.episode =
                IF sxe > 0
                THEN <<"E">> \o padStart(seasonEpisodeAt(cleanName, sxe).episode, 2, "0")
                ELSE IF episode = 0 THEN <<>>
                ELSE LET m == episodeAt(cleanName, episode)
                     IN  <<"E">> \o padStart(SubSeq(cleanName, m.from, m.from + m.len - 1), 2, "0"),
            !.source =
                IF source = 0 THEN <<>>
                ELSE SubSeq(cleanName, source,
                            source + Len(sourceAlternatives[sourceAt(cleanName, source)]) - 1),
            !.title = potentialTitle,
            !.isVOSTFR = vostfrMatch(rawName)]

-----------------------------------------------------------------------------
(* parseMediaInfo: the attribute bag read from the MediaInfo report.  A    *)
(* report is its General format, its first Video track, its Audio tracks   *)
(* and its Text tracks; a missing field of a track is the empty string.    *)
(* The fields derived for display only (bit rates, channel layout, the     *)
(* audio track table) take no part in naming and are left out.             *)

s_Unknown == <<"U","n","k","n","o","w","n">>

\* "<n~>" is n tilde, "<e^>" is e circumflex
LANGUAGE_MAP ==
    << <<<<"f","r","e","n","c","h">>, <<"F","r","a","n","<c,>","a","i","s">>>>, <<<<"f","r","a","n","<c,>","a","i","s">>, <<"F","r","a","n","<c,>","a","i","s">>>>, <<<<"f","r">>, <<"F","r","a","n","<c,>","a","i","s">>>>,
       <<<<"e","n","g","l","i","s","h">>, <<"A","n","g","l","a","i","s">>>>, <<<<"e","n">>, <<"A","n","g","l","a","i","s">>>>,
       <<<<"s","p","a","n","i","s","h">>, <<"E","s","p","a","g","n","o","l">>>>, <<<<"e","s","p","a","<n~>","o","l">>, <<"E","s","p","a","g","n","o","l">>>>, <<<<"e","s">>, <<"E","s","p","a","g","n","o","l">>>>,
       <<<<"g","e","r","m","a","n">>, <<"A","l","l","e","m","a","n","d">>>>, <<<<"d","e","u","t","s","c","h">>, <<"A","l","l","e","m","a","n","d">>>>, <<<<"d","e">>, <<"A","l","l","e","m","a","n","d">>>>,
       <<<<"i","t","a","l","i","a","n">>, <<"I","t","a","l","i","e","n">>>>, <<<<"i","t","a","l","i","a","n","o">>, <<"I","t","a","l","i","e","n">>>>, <<<<"i","t">>, <<"I","t","a","l","i","e","n">>>>,
       <<<<"p","o","r","t","u","g","u","e","s","e">>, <<"P","o","r","t","u","g","a","i","s">>>>, <<<<"p","o","r","t","u","g","u","<e^>","s">>, <<"P","o","r","t","u","g","a","i","s">>>>, <<<<"p","t">>, <<"P","o","r","t","u","g","a","i","s">>>>,
       <<<<"j","a","p","a","n","e","s","e">>, <<"J","a","p","o","n","a","i","s">>>>, <<<<"j","a">>, <<"J","a","p","o","n","a","i","s">>>>,
       <<<<"k","o","r","e","a","n">>, <<"C","o","r","<e'>","e","n">>>>, <<<<"k","o">>, <<"C","o","r","<e'>","e","n">>>>,
       <<<<"c","h","i","n","e","s","e">>, <<"C","h","i","n","o","i","s">>>>, <<<<"z","h">>, <<"C","h","i","n","o","i","s">>>>,
       <<<<"r","u","s","s","i","a","n">>, <<"R","u","s","s","e">>>>, <<<<"r","u">>, <<"R","u","s","s","e">>>>,
       <<<<"a","r","a","b","i","c">>, <<"A","r","a","b","e">>>>, <<<<"a","r">>, <<"A","r","a","b","e">>>> >>

\* LANGUAGE_MAP[base], '' when base is not a key
languageOf(base) ==
    LET k == firstOf({i \in 1..Len(LANGUAGE_MAP) : LANGUAGE_MAP[i][1] = base})
    IN  IF k = 0 THEN <<>> ELSE LANGUAGE_MAP[k][2]

\* /VOSTFR|VO[\s-]*STF?R?/i
matchesVostfr(s) ==
    \/ includesIgnoreCase(s, s_VOSTFR)
    \/ \E p \in 1..Len(s), q \in 1..(Len(s) + 1) :
          /\ matchesAt(s, p, <<"V","O">>)
          /\ q >= p + 2
          /\ \A k \in (p + 2)..(q - 1) : IsSpace(s[k]) \/ s[k] = "-"
          /\ matchesAt(s, q, <<"S","T">>)

\* lang.match(/VF[FQ]/i): the text matched, '' for none
matchVff(s) ==
    LET p == firstOf({i \in 1..Len(s) : matchesAt(s, i, s_VFF) \/ matchesAt(s, i, s_VFQ)})
    IN  IF p = 0 THEN <<>> ELSE SubSeq(s, p, p + 2)

\* lang.match(/^([\w\-]+)/i): the leading run of word characters and "-"
leadingWord(s) ==
    LET ends == {n \in 0..Len(s) : \A k \in 1..n : IsWordChar(s[k]) \/ s[k] = "-"}
    IN  SubSeq(s, 1, CHOOSE n \in ends : \A m \in ends : m <= n)

normalizeLang(rawLang) ==
    IF ~truthy(rawLang) THEN s_Unknown
    ELSE LET lang == trim(rawLang)
             base == toLowerCase(leadingWord(lang))
         IN  IF matchesVostfr(lang) THEN s_VOSTFR
             ELSE IF matchVff(lang) # <<>>
                  THEN IF toUpperCase(matchVff(lang)) = s_VFQ THEN s_VFQ ELSE s_VFF
             ELSE IF base # <<>>
                  THEN IF truthy(languageOf(base)) THEN languageOf(base) ELSE lang
             ELSE IF truthy(lang) THEN lang ELSE s_Unknown

\* an absent track
NoTrack == [present |-> FALSE]

\* info.container, from the General track
containerOf(fmt) ==
    IF ~truthy(fmt) THEN <<>>
    ELSE IF includes(fmt, <<"M","a","t","r","o","s","k","a">>) THEN <<"M","K","V">>
    ELSE IF includes(fmt, <<"M","P","E","G","-","4">>) THEN <<"M","P","4">>
    ELSE IF includes(fmt, <<"A","V","I">>) THEN <<"A","V","I">>
    ELSE fmt

\* the value of a run of decimal digits
RECURSIVE decimal(_)
decimal(digits) ==
    IF digits = <<>> THEN 0
    ELSE 10 * decimal(SubSeq(digits, 1, Len(digits) - 1))
         + (CHOOSE d \in 0..9 : ToString(d) = digits[Len(digits)])

\* parseInt(s) of a decimal string: leading white space, a sign, then the
\* longest run of digits; NaN when there is no digit
parseInt(s) ==
    LET spaces == {i \in 1..Len(s) : \A k \in 1..i : IsSpace(s[k])}
        start == Cardinality(spaces) + 1
        signed == start <= Len(s) /\ s[start] \in {"-", "+"}
        first == IF signed THEN start + 1 ELSE start
        n == digitRun(s, first)
        magnitude == decimal(SubSeq(s, first, first + n - 1))
    IN  IF n = 0 THEN [nan |-> TRUE, value |-> 0]
        ELSE [nan |-> FALSE,
              value |-> IF signed /\ s[start] = "-" THEN 0 - magnitude ELSE magnitude]

\* parseInt(s) || 0
parseIntOrZero(s) == LET n == parseInt(s) IN IF n.nan THEN 0 ELSE n.value

\* the resolution with both thresholds of a tier required
resolutionOfBoth(width, height) ==
    IF width >= 3840 /\ height >= 2100 THEN <<"2","1","6","0","p">>
    ELSE IF width >= 1920 /\ height >= 1000 THEN <<"1","0","8","0","p">>
    ELSE IF width >= 1280 /\ height >= 700 THEN <<"7","2","0","p">>
    ELSE IF width > 0 \/ height > 0 THEN <<"4","8","0","p">>
    ELSE <<>>

\* info.resolution, from the width and the height of the Video track
resolutionOf(width, height) ==
    IF width >= 3840 \/ height >= 2100 THEN <<"2","1","6","0","p">>
    ELSE IF width >= 1920 \/ height >= 1000 THEN <<"1","0","8","0","p">>
    ELSE IF width >= 1280 \/ height >= 700 THEN <<"7","2","0","p">>
    ELSE IF width > 0 \/ height > 0 THEN <<"4","8","0","p">>
    ELSE <<>>

\* info.codec, from the Video track
videoCodecOf(track) ==
    IF includes(track.Encoded_Library, s_x265) \/ track.Format = s_HEVC THEN s_x265
    ELSE IF includes(track.Encoded_Library, s_x264) \/ track.Format = s_AVC THEN s_x264
    ELSE IF track.Format = <<"A","V","1">> THEN <<"A","V","1">>
    ELSE track.Format

\* info.hdr, from the Video track
hdrOf(track) ==
    (IF ~truthy(track.HDR_Format) THEN <<>>
     ELSE (IF includes(track.HDR_Format, s_HDR10P) THEN <<s_HDR10P>>
           ELSE IF includes(track.HDR_Format, s_HDR10) THEN <<s_HDR10>>
           ELSE IF includes(track.HDR_Format, s_HDR) THEN <<s_HDR>>
           ELSE <<>>)
          \o opt(includes(track.HDR_Format, s_Dolby_Vision)
                    \/ includes(track.HDR_Format_Compatibility, s_HDR10), s_DV))
    \o opt(includes(track.transfer_characteristics, s_HLG), s_HLG)

\* the codec of an Audio track, normalized
audioCodecOf(track) ==
    LET codec == track.Format
        commercial == track.Format_Commercial
        base ==
            IF includes(codec, s_E_AC_3) \/ includes(codec, s_EAC3) THEN s_EAC3
            ELSE IF includes(codec, s_AC_3) \/ codec = s_AC3 THEN s_AC3
            ELSE IF includes(codec, s_DTS)
                 THEN IF includes(commercial, s_DTSX) THEN s_DTSX
                      ELSE IF includes(codec, <<"D","T","S","-","H","D"," ","M","A">>) THEN <<"D","T","S","-","H","D"," ","M","A">>
                      ELSE IF includes(codec, <<"D","T","S","-","H","D">>) THEN <<"D","T","S","-","H","D">>
                      ELSE s_DTS
            ELSE IF includes(codec, <<"M","L","P">>) \/ includes(codec, s_TrueHD) THEN s_TrueHD
            ELSE IF includes(codec, <<"A","A","C">>) THEN <<"A","A","C">>
            ELSE IF includes(codec, <<"F","L","A","C">>) THEN <<"F","L","A","C">>
            ELSE IF includes(codec, <<"O","p","u","s">>) THEN <<"O","p","u","s">>
            ELSE codec
    IN  IF includes(commercial, s_Atmos) \/ includes(track.Format_AdditionalFeatures, s_Atmos)
        THEN IF base = s_TrueHD THEN <<"T","r","u","e","H","D"," ","A","t","m","o","s">>
             ELSE IF base = s_EAC3 THEN <<"E","-","A","C","3"," ","A","t","m","o","s">>
             ELSE base \o <<" ","A","t","m","o","s">>
        ELSE base

\* normalizeLang(track.Language || track.Title || 'Unknown')
audioLanguageOf(track) ==
    normalizeLang(IF truthy(track.Language) THEN track.Language
                  ELSE IF truthy(track.Title) THEN track.Title
                  ELSE s_Unknown)

\* info.language, the overall language of the audio tracks
overallLanguage(audioLanguages) ==
    LET French(l) == \/ includes(toLowerCase(l), s_francais)
                     \/ includes(toLowerCase(l), s_vff)
                     \/ includes(toLowerCase(l), s_vfq)
        hasFrenchTrack == \E i \in 1..Len(audioLanguages) : French(audioLanguages[i])
        hasNonFrench == \E i \in 1..Len(audioLanguages) : ~French(audioLanguages[i])
    IN  IF hasFrenchTrack /\ hasNonFrench THEN s_MULTi
        ELSE IF hasFrenchTrack THEN s_FRENCH
        ELSE <<>>

\* the entry of info.subtitleLanguages for a Text track
subtitleOf(track) ==
    LET lang == normalizeLang(IF truthy(track.Language) THEN track.Language ELSE s_Unknown)
        lowerTitle == toLowerCase(track.Title)
        subType ==
            IF includes(lowerTitle, <<"f","o","r","c","e","d">>) \/ track.Forced = <<"Y","e","s">>
            THEN <<"F","o","r","c","<e'>","s">>
            ELSE IF includes(lowerTitle, <<"s","d","h">>) THEN <<"S","D","H">>
            ELSE IF includes(lowerTitle, <<"f","u","l","l">>) THEN <<"C","o","m","p","l","e","t">>
            ELSE <<>>
        subFormat ==
            IF \/ includes(track.Format, <<"U","T","F","-","8">>)
               \/ includes(track.Format, <<"S","u","b","R","i","p">>)
               \/ includes(track.Format, <<"A","S","S">>)
               \/ includes(track.Format, <<"S","S","A">>)
            THEN <<"S","R","T">>
            ELSE IF includes(track.Format, <<"P","G","S">>) \/ includes(track.Format, <<"H","D","M","V">>)
            THEN <<"P","G","S">>
            ELSE <<>>
        suffix ==
            IF truthy(subType) /\ truthy(subFormat)
            THEN <<" ","(">> \o subType \o <<" ">> \o subFormat \o <<")">>
            ELSE IF truthy(subType) THEN <<" ","(">> \o subType \o <<")">>
            ELSE IF truthy(subFormat) THEN <<" ","(">> \o subFormat \o <<")">>
            ELSE <<>>
    IN  lang \o suffix

parseMediaInfo(r) ==
    IF r.isText THEN EmptyBag
    ELSE
      LET audioLanguages == [i \in 1..Len(r.audio) |-> audioLanguageOf(r.audio[i])]
          withVideo ==
            IF r.video.present
            THEN [EmptyBag EXCEPT
                    !.container = containerOf(r.general),
                    !.resolution = resolutionOf(parseIntOrZero(r.video.Width),
                                                parseIntOrZero(r.video.Height)),
                    !.codec = videoCodecOf(r.video),
                    !.hdr = hdrOf(r.video)]
            ELSE EmptyBag
          withAudio ==
            IF Len(r.audio) > 0
            THEN [withVideo EXCEPT
                    !.audioLanguages = audioLanguages,
                    !.audioCodecs =
                        values(unique([i \in 1..Len(r.audio) |-> audioCodecOf(r.audio[i])])),
                    !.language = overallLanguage(audioLanguages)]
            ELSE withVideo
      IN  [withAudio EXCEPT
              !.subtitleLanguages = [i \in 1..Len(r.text) |-> subtitleOf(r.text[i])]]

-----------------------------------------------------------------------------
(* Media overlays, and the Serie class (the one that keeps isPack          *)
(* dynamic).                                                               *)

\* Media.applyReleaseInfo
applyReleaseInfo(m, info) ==
    [m EXCEPT
        !.title = IF truthy(info.title) THEN info.title ELSE @,
        !.year = IF truthy(info.year) THEN info.year ELSE @,
        !.source = IF truthy(info.source) THEN info.source ELSE @,
        !.releaseGroup = IF truthy(info.releaseGroup) THEN info.releaseGroup ELSE @,
        !.edition = IF truthy(info.edition) THEN info.edition ELSE @,
        !.info = IF truthy(info.info) THEN info.info ELSE @,
        !.isVOSTFR = IF info.isVOSTFR THEN info.isVOSTFR ELSE @]

\* Media.applyMediaInfo
applyMediaInfo(m, info) ==
    [m EXCEPT
        !.resolution = IF truthy(info.resolution) THEN info.resolution ELSE @,
        !.codec = IF truthy(info.codec) THEN info.codec ELSE @,
        !.container = IF truthy(info.container) THEN info.container ELSE @,
        !.hdr = IF truthy(info.hdr) THEN info.hdr ELSE @,
        !.audioCodecs = IF truthy(info.audioCodecs) THEN info.audioCodecs ELSE @,
        !.audioChannels = IF truthy(info.audioChannels) THEN info.audioChannels ELSE @,
        !.audioLanguages = IF truthy(info.audioLanguages) THEN info.audioLanguages ELSE @,
        !.subtitleLanguages = IF truthy(info.subtitleLanguages) THEN info.subtitleLanguages ELSE @,
        !.language = IF truthy(info.language) THEN info.language ELSE @]

\* Serie._updateIsPack
updateIsPack(m) ==
    IF truthy(m.episode) /\ trim(m.episode) # <<>> THEN [m EXCEPT !.isPack = FALSE]
    ELSE IF m.episodeCount > 1 THEN [m EXCEPT !.isPack = TRUE]
    ELSE m

\* set season(val)
setSeason(m, val) == updateIsPack([m EXCEPT !.season = val])

\* set episode(val)
setEpisode(m, val) == updateIsPack([m EXCEPT !.episode = val])

\* new Film({ path })
newFilm(path) == [EmptyBag EXCEPT !.cls = "Film", !.type = "movie", !.path = path]

\* new Serie({ path }): isPack starts from episodeCount > 1, that is false
newSerie(path) ==
    updateIsPack([EmptyBag EXCEPT !.cls = "Serie", !.type = "serie", !.path = path,
                                  !.isPack = FALSE])

\* Serie.applyDirectoryAnalysis; analysis.isPack is "true", "false" or
\* "undefined"
applyDirectoryAnalysis(m, analysis) ==
    LET a == IF analysis.isPack # "undefined"
             THEN [m EXCEPT !.isPack = (analysis.isPack = "true")] ELSE m
        b == IF analysis.episodeCount # 0
             THEN [a EXCEPT !.episodeCount = analysis.episodeCount] ELSE a
        c == IF truthy(analysis.season) THEN setSeason(b, analysis.season) ELSE b
    IN  IF analysis.isComplete THEN [c EXCEPT !.isComplete = TRUE] ELSE c

\* Serie.formatSeason
formatSeason(m) ==
    IF ~truthy(m.season) THEN <<>>
    ELSE LET s == toUpperCase(m.season)
             padded == padStart(s, 3, "0")
             zeros == {n \in 1..Len(padded) : \A k \in 1..n : padded[k] = "0"}
             lead == IF zeros = {} THEN 0 ELSE CHOOSE n \in zeros : \A k \in zeros : k <= n
         IN  IF s \in {toUpperCase(s_Complete), toUpperCase(s_Integrale)}
             THEN toUpperCase(s_Complete)
             ELSE IF startsWith(s, <<"S">>)
                  \* s.padStart(3, '0').replace(/^0+S/, 'S')
                  THEN IF lead > 0 /\ lead < Len(padded) /\ padded[lead + 1] = "S"
                       THEN SubSeq(padded, lead + 1, Len(padded)) ELSE padded
             ELSE <<"S">> \o padStart(s, 2, "0")

\* Serie.formatEpisode
formatEpisode(m) ==
    IF ~truthy(m.episode) THEN <<>>
    ELSE LET e == toUpperCase(m.episode)
         IN  IF startsWith(e, <<"E">>) THEN e ELSE <<"E">> \o padStart(e, 2, "0")

\* the pack branch with the episode designator kept after the season
packBranchWithEpisode(m) ==
    IF m.isComplete THEN <<toUpperCase(s_Complete)>>
    ELSE opt(truthy(m.season), formatSeason(m) \o formatEpisode(m))

\* slot 4 of Serie.generateName when isPack holds
packBranch(m) ==
    IF m.isComplete THEN <<toUpperCase(s_Complete)>>
    ELSE opt(truthy(m.season), formatSeason(m))

\* slot 4 of Serie.generateName when isPack does not hold
episodeBranch(m) ==
    IF truthy(m.season) /\ truthy(m.episode) THEN <<formatSeason(m) \o formatEpisode(m)>>
    ELSE IF truthy(m.episode)
         THEN IF truthy(m.season) THEN <<formatSeason(m) \o formatEpisode(m)>>
              ELSE <<formatEpisode(m)>>
    ELSE opt(truthy(m.season), formatSeason(m))

\* Serie.generateName
Serie_generateName(m) ==
    withTeam(
        opt(truthy(m.title), normalizeTitle(m.title))
        \o opt(m.threeD, s_3D)
        \o opt(truthy(m.threeDType), m.threeDType)
        \o opt(truthy(m.year), m.year)
        \o (IF m.isPack THEN packBranch(m) ELSE episodeBranch(m))
        \o opt(truthy(m.info), toUpperCase(m.info))
        \o opt(truthy(m.edition), m.edition)
        \o opt(m.imax, s_iMAX)
        \o getLanguageParts(m)
        \o getHdrParts(m)
        \o opt(truthy(getResolutionPart(m)), getResolutionPart(m))
        \o opt(truthy(m.platform), toUpperCase(m.platform))
        \o opt(truthy(getSourcePart(m)), getSourcePart(m))
        \o getAudioParts(m)
        \o opt(truthy(getCodecPart(m)), getCodecPart(m)),
        m)

\* media.generateName()
generateName(m) == IF m.cls = "Serie" THEN Serie_generateName(m) ELSE Film_generateName(m)

-----------------------------------------------------------------------------
(* MediaFactory: the classifier detectType and the constructor create.     *)

\* path.split(/[/\\]/).pop() || ''
lastSegment(path) ==
    LET seps == {i \in 1..Len(path) : path[i] \in {"/", "\\"}}
    IN  IF seps = {} THEN path
        ELSE SubSeq(path, (CHOOSE i \in seps : \A j \in seps : j <= i) + 1, Len(path))

\* /(setup|install|crack|keygen|plaza|codex|skidrow|fitgirl|gog|drm.?free)/i
gamePatterns(s) ==
    \/ \E w \in {<<"s","e","t","u","p">>, <<"i","n","s","t","a","l","l">>, <<"c","r","a","c","k">>, <<"k","e","y","g","e","n">>, <<"p","l","a","z","a">>, <<"c","o","d","e","x">>,
                 <<"s","k","i","d","r","o","w">>, <<"f","i","t","g","i","r","l">>, <<"g","o","g">>} : includesIgnoreCase(s, w)
    \/ \E p \in 1..Len(s) :
          /\ matchesAt(s, p, <<"d","r","m">>)
          /\ matchesAt(s, p + 3, <<"f","r","e","e">>) \/ matchesAt(s, p + 4, <<"f","r","e","e">>)

\* the six seasonPackPatterns, on the last segment of the path
seasonPackPatterns(s) ==
    \E p \in 1..Len(s) :
        \* /\bS\d{1,2}\b(?!E)/i
        \/ /\ wordBoundary(s, p)
           /\ matchesAt(s, p, <<"S">>)
           /\ digitsThenBoundary(s, p + 1, 2) > 0
           /\ ~matchesAt(s, p + 1 + digitsThenBoundary(s, p + 1, 2), <<"E">>)
        \* /\bSaison\s?\d{1,2}\b/i and /\bSeason\s?\d{1,2}\b/i
        \/ prefixedNumberAt(s, p, <<<<"S","a","i","s","o","n">>>>, 2).len > 0
        \/ prefixedNumberAt(s, p, <<s_Season>>, 2).len > 0
        \* /\bComplete\b/i and /\bIntegrale\b/i
        \/ wordBoundary(s, p) /\ firstAlternative(s, p, <<s_Complete, s_Integrale>>) > 0
        \* /\bS\d{1,2}\.?COMPLETE\b/i
        \/ LET n == digitRun(s, p + 1)
               q == IF matchesAt(s, p + 1 + n, <<".">>) THEN p + 2 + n ELSE p + 1 + n
           IN  /\ wordBoundary(s, p)
               /\ matchesAt(s, p, <<"S">>)
               /\ n \in 1..2
               /\ matchesAt(s, q, s_Complete)
               /\ wordBoundary(s, q + Len(s_Complete))

\* the four episodePatterns, on the last segment of the path
episodePatterns(s) ==
    \E p \in 1..Len(s) :
        \* /\bS\d{1,2}E\d{1,3}\b/i
        \/ seasonEpisodeAt(s, p).found
        \* /\b\d{1,2}x\d{2,3}\b/i
        \/ LET n1 == digitRun(s, p)
               n2 == digitRun(s, p + n1 + 1)
           IN  /\ wordBoundary(s, p)
               /\ n1 \in 1..2
               /\ matchesAt(s, p + n1, <<"x">>)
               /\ n2 \in 2..3
               /\ wordBoundary(s, p + n1 + 1 + n2)
        \* /\bE\d{1,3}\b/i
        \/ prefixedNumberAt(s, p, <<(<<"E">>)>>, 3).len > 0
              /\ prefixedNumberAt(s, p, <<(<<"E">>)>>, 3).from = p + 1
        \* /Episode\s?\d{1,3}/i
        \/ /\ matchesAt(s, p, s_Episode)
           /\ digitRun(s, skipOptionalSpace(s, p + Len(s_Episode))) >= 1

\* MediaFactory.detectType
detectType(path, info, analysis) ==
    LET fileSegment == lastSegment(path)
    IN  IF analysis.present /\ analysis.isPack = "true" THEN "season"
        ELSE IF /\ analysis.present
                /\ analysis.episodeCount = 1
                /\ truthy(info.season) \/ truthy(info.episode)
             THEN "episode"
        ELSE IF extensionIn(toLowerCase(path), EbookExtensions) # <<>> THEN "ebook"
        ELSE IF gamePatterns(toLowerCase(fileSegment)) THEN "game"
        ELSE IF seasonPackPatterns(fileSegment) THEN "season"
        ELSE IF episodePatterns(fileSegment) THEN "episode"
        ELSE IF truthy(info.season) /\ truthy(info.episode) THEN "episode"
        ELSE IF truthy(info.season) THEN "season"
        ELSE "movie"

\* Object.keys(releaseInfo).length > 0 for a bag of parseReleaseName
hasReleaseKeys(info) ==
    \/ info.isVOSTFR
    \/ \E f \in {"title", "year", "season", "episode", "source", "releaseGroup",
                 "container"} : truthy(info[f])

\* Object.keys(mediaInfo).length > 0 for a bag of parseMediaInfo
hasMediaKeys(info) ==
    \E f \in {"container", "resolution", "codec", "hdr", "audioLanguages",
              "audioCodecs", "language"} : truthy(info[f])

\* forcedType || this.detectType(path, releaseInfo, directoryAnalysis)
typeOf(path, info, analysis, forced) ==
    IF forced # "" THEN forced ELSE detectType(path, info, analysis)

\* MediaFactory.create
create(path, info, probe, analysis, forced) ==
    LET kind == typeOf(path, info, analysis, forced)
        fresh == IF kind \in {"season", "episode"}
                 THEN [newSerie(path) EXCEPT !.isPack = (kind = "season")]
                 ELSE newFilm(path)
        named == applyReleaseInfo(fresh, info)
        seasoned == IF named.cls = "Serie" /\ truthy(info.season)
                    THEN setSeason(named, info.season) ELSE named
        released == IF ~hasReleaseKeys(info) THEN fresh
                    ELSE IF seasoned.cls = "Serie" /\ truthy(info.episode)
                         THEN setEpisode(seasoned, info.episode) ELSE seasoned
        probed == IF hasMediaKeys(probe) THEN applyMediaInfo(released, probe) ELSE released
    IN  IF analysis.present /\ probed.cls = "Serie"
        THEN applyDirectoryAnalysis(probed, analysis) ELSE probed

-----------------------------------------------------------------------------
(* Scenario "workflow": a file is selected, its name and its MediaInfo     *)
(* report are parsed, the media object is built and names itself; or the   *)
(* legacy path of step 3 overlays the report on the parsed name and        *)
(* composes a movie name.                                                  *)

MaxTracks == 2

s_Example_Movie == <<"E","x","a","m","p","l","e",".","M","o","v","i","e">>
s_Show == <<"S","h","o","w">>
s_canonical == <<"E","x","a","m","p","l","e",".","M","o","v","i","e",".","2","0","1","9",".","1","0","8","0","p",".","B","l","u","R","a","y",".","x","2","6","4","-","G","R","O","U","P">>

\* name = title, year, season/episode, resolution, source, codec, group,
\* extension
NamesOf(titles, designators) ==
    {t \o y \o d \o r \o s \o c \o g \o e :
        t \in titles,
        y \in {<<>>, <<".","2","0","1","9">>},
        d \in designators,
        r \in {<<>>, <<".","1","0","8","0","p">>},
        s \in {<<>>, <<".","B","l","u","R","a","y">>},
        c \in {<<>>, <<".","x","2","6","4">>},
        g \in {<<>>, <<"-","G","R","O","U","P">>},
        e \in {<<>>, <<".","m","k","v">>}}

Designators == {<<>>, <<".","S","0","1">>, <<".","S","0","1","E","0","5">>, <<".","S","0","1",".","E","0","5">>, <<".","E","0","5">>, <<".","S","e","a","s","o","n"," ","1",".","E","p","i","s","o","d","e"," ","5">>}

MovieNames == NamesOf({s_Example_Movie}, {<<>>}) \cup {<<"E","x","a","m","p","l","e",".","M","o","v","i","e",".","V","O","S","T","F","R",".","W","E","B","-","D","L">>}

ShowNames ==
    {s_Show \o d \o g : d \in Designators \ {<<>>}, g \in {<<>>, <<".","1","0","8","0","p",".","W","E","B","-","D","L","-","G","R","O","U","P">>}}
    \cup {<<"S","h","o","w",".","I","n","t","e","g","r","a","l","e">>, <<"S","h","o","w",".","2","x","0","5">>, <<"S","h","o","w",".","S","0","1",".","C","O","M","P","L","E","T","E">>, <<"S","h","o","w",".","p","d","f">>, <<"S","h","o","w",".","S","e","t","u","p">>,
          <<"S","h","o","w",".","S","a","i","s","o","n"," ","2">>}

TextReport == [isText |-> TRUE]

VideoTracks ==
    {NoTrack,
     [present |-> TRUE, Width |-> <<"1","9","2","0">>, Height |-> <<"1","0","8","0">>, Format |-> s_AVC,
      Encoded_Library |-> <<>>, HDR_Format |-> <<>>,
      HDR_Format_Compatibility |-> <<>>, transfer_characteristics |-> <<>>],
     [present |-> TRUE, Width |-> <<"3","8","4","0">>, Height |-> <<"2","1","6","0">>, Format |-> s_HEVC,
      Encoded_Library |-> s_x265, HDR_Format |-> <<"D","o","l","b","y"," ","V","i","s","i","o","n"," ","/"," ","S","M","P","T","E"," ","S","T"," ","2","0","8","6">>,
      HDR_Format_Compatibility |-> <<"H","D","R","1","0">>, transfer_characteristics |-> <<>>]}

TrackLanguages == {<<"F","r","a","n","<c,>","a","i","s">>, <<"E","n","g","l","i","s","h">>, <<"f","r">>, <<"V","F","Q">>, <<"J","a","p","a","n","e","s","e">>, <<>>}

AudioTrackOf(language) ==
    [Language |-> language, Title |-> <<>>, Format |-> s_AC_3,
     Format_Commercial |-> <<>>, Format_AdditionalFeatures |-> <<>>]

AudioTrackLists ==
    {[i \in 1..Len(l) |-> AudioTrackOf(l[i])] : l \in StringsUpTo(TrackLanguages, MaxTracks)}

Reports ==
    {[isText |-> FALSE, general |-> <<"M","a","t","r","o","s","k","a">>, video |-> v, audio |-> a,
      text |-> <<>>] :
        v \in VideoTracks, a \in AudioTrackLists}

VideoOnlyReports == {r \in Reports : r.video.present /\ r.audio = <<>>}

NoAnalysis == [present |-> FALSE]

Analyses ==
    {NoAnalysis}
    \cup {[present |-> TRUE, isPack |-> p, episodeCount |-> n, season |-> s,
           isComplete |-> FALSE] :
            p \in {"true", "false", "undefined"}, n \in {0, 1, 10},
            s \in {<<>>, <<"S","0","1">>}}

ForcedTypes == {"", "movie", "season", "episode"}

\* the selections the scenario starts from
Selections ==
    (MovieNames \X ({TextReport} \cup VideoOnlyReports) \X {NoAnalysis} \X {""})
    \cup ({s_canonical, <<"E","x","a","m","p","l","e",".","M","o","v","i","e",".","2","0","1","9">>} \X Reports \X {NoAnalysis} \X {""})
    \cup (ShowNames \X {TextReport} \X Analyses \X ForcedTypes)

InitWorkflow ==
    /\ pc = "file"
    /\ \E sel \in Selections :
          /\ fileName = sel[1]
          /\ report = sel[2]
          /\ directoryAnalysis = sel[3]
          /\ forcedType = sel[4]
    /\ releaseInfo = <<>>
    /\ mediaInfo = <<>>
    /\ detectedType = "none"
    /\ media = NoMedia
    /\ name = <<>>
    /\ langParts = <<>>
    /\ hdrParts = <<>>
    /\ title = <<>>
    /\ once = <<>>
    /\ twice = <<>>
    /\ NoTaxonomy
    /\ NoCalls
    /\ NoPage

\* AppState.releaseInfo = parseReleaseName(name)
ParseReleaseName ==
    /\ pc = "file"
    /\ releaseInfo' = parseReleaseName(fileName)
    /\ pc' = "parsed"
    /\ UNCHANGED <<titleVars, nameVars, inputVars, mediaInfo, detectedType, tagVars, cacheVars, pageVars>>

\* parseMediaInfo(jsonData)
ParseMediaInfo ==
    /\ pc = "parsed"
    /\ mediaInfo' = parseMediaInfo(report)
    /\ pc' = "probed"
    /\ UNCHANGED <<titleVars, nameVars, inputVars, releaseInfo, detectedType, tagVars, cacheVars, pageVars>>

\* AppState.initMedia(options)
InitMedia ==
    /\ pc = "probed"
    /\ detectedType' = typeOf(fileName, releaseInfo, directoryAnalysis, forcedType)
    /\ media' = create(fileName, releaseInfo, mediaInfo, directoryAnalysis, forcedType)
    /\ pc' = "created"
    /\ UNCHANGED <<titleVars, name, langParts, hdrParts, inputVars, releaseInfo,
                   mediaInfo, tagVars, cacheVars, pageVars>>

\* AppState.generateMediaName() with a current media
GenerateMediaName ==
    /\ pc = "created"
    /\ name' = generateName(media)
    /\ langParts' = getLanguageParts(media)
    /\ hdrParts' = getHdrParts(media)
    /\ pc' = "named"
    /\ UNCHANGED <<titleVars, media, inputVars, parseVars, tagVars, cacheVars, pageVars>>

\* Object.assign(info, nfoInfo)
assign(info, nfoInfo) ==
    [info EXCEPT
        !.container = IF truthy(nfoInfo.container) THEN nfoInfo.container ELSE @,
        !.resolution = IF truthy(nfoInfo.resolution) THEN nfoInfo.resolution ELSE @,
        !.codec = IF truthy(nfoInfo.codec) THEN nfoInfo.codec ELSE @,
        !.hdr = IF truthy(nfoInfo.hdr) THEN nfoInfo.hdr ELSE @,
        !.audioLanguages = IF truthy(nfoInfo.audioLanguages) THEN nfoInfo.audioLanguages ELSE @,
        !.audioCodecs = IF truthy(nfoInfo.audioCodecs) THEN nfoInfo.audioCodecs ELSE @,
        !.language = IF truthy(nfoInfo.language) THEN nfoInfo.language ELSE @]

\* step 3 of the workflow for the media type 'movie': the report is laid
\* over the parsed name and the legacy composer names the release
InitStep3 ==
    /\ pc = "probed"
    /\ ~truthy(releaseInfo.season)
    /\ ~truthy(releaseInfo.episode)
    /\ releaseInfo' = assign(releaseInfo, mediaInfo)
    /\ name' = generateMovieReleaseName(releaseInfo')
    /\ langParts' = generateLanguageParts(releaseInfo')
    /\ hdrParts' = getHdrParts(releaseInfo')
    /\ pc' = "legacy"
    /\ UNCHANGED <<titleVars, media, inputVars, mediaInfo, detectedType, tagVars, cacheVars, pageVars>>

NextWorkflow ==
    ParseReleaseName \/ ParseMediaInfo \/ InitMedia \/ GenerateMediaName \/ InitStep3

SpecWorkflow == InitWorkflow /\ [][NextWorkflow]_vars

-----------------------------------------------------------------------------
(* Properties of the workflow scenario.                                    *)

\* the report supplies the resolution 1080p and the video codec x264, and
\* nothing else
SuppliesResolutionAndCodec ==
    mediaInfo = [EmptyBag EXCEPT !.resolution = s_1080p, !.codec = s_x264,
                                 !.container = mediaInfo.container]

\* C3: the name "Example.Movie.2019.1080p.BluRay.x264-GROUP" parses to the
\* title "Example Movie", the year 2019, the source BluRay, the group GROUP
\* and no resolution, and the movie name composed once the report has
\* supplied the resolution 1080p and the codec x264 is that same name, the
\* codec spelled "x264"
C3_CanonicalRoundTrip ==
    /\ (pc = "parsed" /\ fileName = s_canonical) =>
          /\ releaseInfo.title = <<"E","x","a","m","p","l","e"," ","M","o","v","i","e">>
          /\ releaseInfo.year = s_2019
          /\ releaseInfo.source = s_BluRay
          /\ releaseInfo.releaseGroup = <<"G","R","O","U","P">>
          /\ releaseInfo.resolution = <<>>
    /\ (/\ pc \in {"named", "legacy"}
        /\ fileName = s_canonical
        /\ SuppliesResolutionAndCodec) => name = s_canonical

\* the report has two audio tracks, "Francais" (c cedilla) then "English"
FrenchAndEnglishTracks ==
    /\ ~report.isText
    /\ [i \in 1..Len(report.audio) |-> report.audio[i].Language] = <<s_Francais, s_English>>

\* C4: audio tracks in "Francais" (c cedilla) and "English", no VOSTFR
\* flag: parseMediaInfo sets the overall language to "MULTi" and the
\* language slot of the composed name is the token "MULTI"
C4_FrenchEnglishIsMulti ==
    (/\ pc \in {"named", "legacy"}
     /\ FrenchAndEnglishTracks
     /\ ~releaseInfo.isVOSTFR) =>
        /\ mediaInfo.language = s_MULTi
        /\ langParts = <<s_MULTI>>

\* the name Serie.generateName composes when slot 4 takes the pack branch
PackName(m) == Serie_generateName([m EXCEPT !.isPack = TRUE])

\* C6: when detectType answers 'season', the media object built by
\* MediaFactory.create from the same inputs is a Serie and its name is the
\* one the pack branch of the season/episode slot composes: no episode
\* designator appears in it
C6_SeasonComposesAsPack ==
    (/\ pc = "named"
     /\ forcedType = ""
     /\ detectedType = "season") =>
        /\ media.cls = "Serie"
        /\ name = PackName(media)

-----------------------------------------------------------------------------
(* Tag inference: getAutoTags of Film and of Serie over the cached tag     *)
(* categories of the tracker.  A category is [name, tags], a tag is        *)
(* [id, name]; ids are positive numbers and 0 stands for null.             *)

\* norm = s => s.normalize('NFD').replace(/\p{Diacritic}/gu, '').toLowerCase().trim()
norm(s) == trim(toLowerCase(stripDiacritics(s)))

\* the aliases of findTagIdByName in Film.getAutoTags: key, then its list
filmAliases ==
    << <<<<"x","2","6","4">>, <<<<"a","v","c","/","h","2","6","4","/","x","2","6","4">>, <<"a","v","c">>, <<"h","2","6","4">>>> >>,
       <<<<"a","c","3">>, <<<<"a","c","3">>, <<"d","o","l","b","y"," ","d","i","g","i","t","a","l">>>> >>,
       <<<<"f","r","a","n","c","a","i","s">>, <<<<"f","r","e","n","c","h">>, <<"f","r","a","n","<c,>","a","i","s">>, <<"f","r">>>> >>,
       <<<<"f","r","e","n","c","h">>, <<<<"f","r","a","n","c","a","i","s">>, <<"f","r","a","n","<c,>","a","i","s">>, <<"f","r">>>> >>,
       <<<<"a","n","g","l","a","i","s">>, <<<<"e","n","g","l","i","s","h">>, <<"e","n">>>> >>,
       <<<<"e","n","g","l","i","s","h">>, <<<<"a","n","g","l","a","i","s">>, <<"e","n">>>> >>,
       <<<<"w","e","b","-","d","l">>, <<<<"w","e","b","-","d","l">>, <<"w","e","b","d","l">>>> >>,
       <<<<"v","f","f">>, <<<<"v","f","f">>>> >>,
       <<<<"v","f","q">>, <<<<"v","f","q">>>> >>,
       <<<<"m","u","l","t","i">>, <<<<"m","u","l","t","i">>>> >>,
       <<<<"1","0","8","0","p">>, <<<<"1","0","8","0","p"," ","(","f","u","l","l"," ","h","d",")">>, <<"1","0","8","0","p">>>> >>,
       <<<<"2","1","6","0","p">>, <<<<"2","1","6","0","p"," ","(","4","k",")">>, <<"2","1","6","0","p">>, <<"4","k">>>> >>,
       <<<<"7","2","0","p">>, <<<<"7","2","0","p"," ","(","h","d",")">>, <<"7","2","0","p">>>> >>,
       <<<<"s","d">>, <<<<"s","d">>>> >>,
       <<<<"r","e","m","u","x">>, <<<<"r","e","m","u","x">>>> >>,
       <<<<"b","l","u","r","a","y">>, <<<<"b","l","u","r","a","y">>, <<"b","l","u","-","r","a","y">>>> >>,
       <<<<"m","k","v">>, <<<<"m","k","v">>>> >>,
       <<<<"m","p","4">>, <<<<"m","p","4">>>> >>,
       <<<<"a","v","i">>, <<<<"a","v","i">>>> >>,
       <<<<"i","s","o">>, <<<<"i","s","o">>>> >>,
       <<<<"a","u","t","r","e","s">>, <<<<"a","u","t","r","e","s">>, <<"a","u","t","r","e","s"," ","e","x","t","e","n","s","i","o","n","s">>, <<"a","u","t","r","e","s"," ","s","o","u","s","-","t","i","t","r","e","s">>, <<"a","u","t","r","e","s"," ","a","u","d","i","o">>>> >> >>

\* Serie.getAutoTags has one more alias
serieAliases ==
    <<filmAliases[1], <<<<"x","2","6","5">>, <<<<"h","e","v","c","/","h","2","6","5","/","x","2","6","5">>, <<"h","e","v","c">>, <<"h","2","6","5">>>> >> >>
    \o Tail(filmAliases)

categoryVariants ==
    << <<<<"S","o","u","r","c","e">>, <<<<"S","o","u","r","c","e">>, <<"S","o","u","r","c","e"," ","/"," ","T","y","p","e">>>> >>,
       <<<<"S","o","u","r","c","e"," ","/"," ","T","y","p","e">>, <<<<"S","o","u","r","c","e">>, <<"S","o","u","r","c","e"," ","/"," ","T","y","p","e">>>> >>,
       <<<<"L","a","n","g","u","e"," ","a","u","d","i","o">>, <<<<"L","a","n","g","u","e"," ","a","u","d","i","o">>, <<"L","a","n","g","u","e","s"," ","a","u","d","i","o">>>> >>,
       <<<<"L","a","n","g","u","e","s"," ","a","u","d","i","o">>, <<<<"L","a","n","g","u","e"," ","a","u","d","i","o">>, <<"L","a","n","g","u","e","s"," ","a","u","d","i","o">>>> >>,
       <<<<"C","o","d","e","c"," ","v","i","d","<e'>","o">>, <<<<"C","o","d","e","c"," ","v","i","d","<e'>","o">>>> >>,
       <<<<"C","o","d","e","c"," ","a","u","d","i","o">>, <<<<"C","o","d","e","c"," ","a","u","d","i","o">>>> >>,
       <<<<"E","x","t","e","n","s","i","o","n">>, <<<<"E","x","t","e","n","s","i","o","n">>, <<"E","x","t","e","n","s","i","o","n","s">>>> >>,
       <<<<"S","o","u","s","-","t","i","t","r","e","s">>, <<<<"S","o","u","s","-","t","i","t","r","e","s">>, <<"S","o","u","s"," ","t","i","t","r","e","s">>>> >>,
       <<<<"R","<e'>","s","o","l","u","t","i","o","n">>, <<<<"R","<e'>","s","o","l","u","t","i","o","n">>, <<"Q","u","a","l","i","t","<e'>"," ","/"," ","R","<e'>","s","o","l","u","t","i","o","n">>>> >>,
       <<<<"Q","u","a","l","i","t","<e'>"," ","/"," ","R","<e'>","s","o","l","u","t","i","o","n">>, <<<<"R","<e'>","s","o","l","u","t","i","o","n">>, <<"Q","u","a","l","i","t","<e'>"," ","/"," ","R","<e'>","s","o","l","u","t","i","o","n">>>> >>,
       <<<<"G","e","n","r","e">>, <<<<"G","e","n","r","e">>, <<"G","e","n","r","e","s">>>> >>,
       <<<<"H","D","R">>, <<<<"H","D","R">>, <<"C","a","r","a","c","t","<e'>","r","i","s","t","i","q","u","e","s"," ","v","i","d","<e'>","o">>>> >>,
       <<<<"C","a","r","a","c","t","<e'>","r","i","s","t","i","q","u","e","s"," ","v","i","d","<e'>","o">>, <<<<"H","D","R">>, <<"C","a","r","a","c","t","<e'>","r","i","s","t","i","q","u","e","s"," ","v","i","d","<e'>","o">>>> >>,
       <<<<"T","y","p","e">>, <<<<"T","y","p","e">>>> >> >>

\* table[key], the empty list when key is not in the table
lookup(table, key) ==
    LET k == firstOf({i \in 1..Len(table) : table[i][1] = key})
    IN  IF k = 0 THEN <<>> ELSE table[k][2]

\* the tags of the categories, in the order the nested loops visit them
RECURSIVE tagsOf(_)
tagsOf(cats) == IF cats = <<>> THEN <<>> ELSE Head(cats).tags \o tagsOf(Tail(cats))

\* the id of the first tag among those that pass a test, 0 (null) when
\* none does
firstTagId(passing) ==
    LET k == firstOf({i \in 1..Len(passing) : passing[i].pass})
    IN  IF k = 0 THEN 0 ELSE passing[k].id

\* the tags, each with the outcome of the test
tested(tags, Test(_)) == [i \in 1..Len(tags) |-> [id |-> tags[i].id, pass |-> Test(tags[i])]]

\* findTagIdByName(name, category) over the cached categories; category ''
\* stands for no category
findTagIdByName(cache, aliases, tagName, category) ==
    IF ~truthy(tagName) THEN 0
    ELSE
      LET normName == norm(tagName)
          variants == lookup(categoryVariants, category)
          cats == IF truthy(category) /\ variants # <<>>
                  THEN SelectSeq(cache, LAMBDA cat :
                          \E v \in 1..Len(variants) : norm(cat.name) = norm(variants[v]))
                  ELSE IF truthy(category)
                  THEN SelectSeq(cache, LAMBDA cat : norm(cat.name) = norm(category))
                  ELSE cache
          known == lookup(aliases, normName)
          Strict(tag) == norm(tag.name) = normName
          Alias(tag) == \E a \in 1..Len(known) : includes(norm(tag.name), norm(known[a]))
          Partial(tag) == includes(norm(tag.name), normName)
          scoped == firstTagId(tested(tagsOf(cats), LAMBDA tag : Strict(tag) \/ Alias(tag)))
          partial == firstTagId(tested(tagsOf(cats), Partial))
      IN  IF scoped # 0 THEN scoped
          ELSE IF partial # 0 THEN partial
          ELSE firstTagId(tested(tagsOf(cache),
                          LAMBDA tag : Strict(tag) \/ Alias(tag) \/ Partial(tag)))

s_telefilm == <<"t","e","l","e","f","i","l","m">>
s_telefilm_acc == <<"t","<e'>","l","<e'>","f","i","l","m">>

\* the genre aliases of Film.getAutoTags
filmGenreAliases ==
    << <<<<"s","f">>, <<<<"s","c","i","e","n","c","e","-","f","i","c","t","i","o","n">>, <<"s","c","i","-","f","i">>>> >>,
       <<<<"c","o","m","e","d","y">>, <<<<"c","o","m","<e'>","d","i","e">>, <<"c","o","m","e","d","y">>>> >>,
       <<s_telefilm, <<s_telefilm_acc, s_telefilm>> >> >>

\* the genre aliases of Serie.getAutoTags
serieGenreAliases == SubSeq(filmGenreAliases, 1, 2)

\* tagCache.categories.filter(cat => ['genre', 'genres'].includes(norm(cat.name)))
genreCategories(cache) ==
    SelectSeq(cache, LAMBDA cat : norm(cat.name) \in {<<"g","e","n","r","e">>, <<"g","e","n","r","e","s">>})

\* the genre tags: Telefilm only when it is the sole genre, matched
\* strictly or by alias inside the genre categories
genreTags(cache, genreAliases, genres) ==
    LET normGenres == [i \in 1..Len(genres) |-> norm(genres[i])]
        tags == tagsOf(genreCategories(cache))
        telefilmId ==
            firstTagId(tested(tags, LAMBDA tag :
                \/ norm(tag.name) \in {s_telefilm_acc, s_telefilm}
                \/ \E alias \in {s_telefilm_acc, s_telefilm} : norm(tag.name) = norm(alias)))
        IdOf(normGenre) ==
            IF normGenre \in {s_telefilm_acc, s_telefilm} THEN 0
            ELSE LET known == lookup(genreAliases, normGenre)
                 IN  firstTagId(tested(tags, LAMBDA tag :
                        \/ norm(tag.name) = normGenre
                        \/ \E a \in 1..Len(known) : norm(tag.name) = norm(known[a])))
    IN  IF Len(genres) = 0 THEN <<>>
        ELSE IF Len(normGenres) = 1 /\ normGenres[1] \in {s_telefilm_acc, s_telefilm}
        THEN <<telefilmId>>
        ELSE [i \in 1..Len(normGenres) |-> IdOf(normGenres[i])]

\* this.path.match(/\.([a-z0-9]+)$/i): group 1, '' for no match
pathExtension(path) ==
    LET dots == {i \in 1..(Len(path) - 1) :
                    /\ path[i] = "."
                    /\ \A k \in (i + 1)..Len(path) :
                          IsLower(path[k]) \/ IsUpper(path[k]) \/ IsDigit(path[k])}
    IN  IF dots = {} THEN <<>> ELSE SubSeq(path, firstOf(dots) + 1, Len(path))

\* the extension looked up: this.extension is never set, then the
\* container, then the extension of the path
extensionOf(m) == IF truthy(m.container) THEN m.container ELSE pathExtension(m.path)

\* [...new Set(tags.filter(Boolean))]
uniqueTags(tags) == values(unique(SelectSeq(tags, LAMBDA id : id # 0)))

\* Film.getAutoTags, the tag cache holding the categories cache
Film_getAutoTags(m, cache) ==
    LET find(tagName, category) == findTagIdByName(cache, filmAliases, tagName, category)
        each(list, category) == [i \in 1..Len(list) |-> find(list[i], category)]
    IN  uniqueTags(
            <<find(<<"F","i","l","m">>, <<"T","y","p","e">>),
              find(m.resolution, <<"R","<e'>","s","o","l","u","t","i","o","n">>),
              find(m.source, <<"S","o","u","r","c","e">>),
              find(m.codec, <<"C","o","d","e","c"," ","v","i","d","<e'>","o">>)>>
            \o each(m.hdr, s_HDR)
            \o opt(m.threeD, find(s_3D, s_HDR))
            \o opt(m.imax, find(<<"I","M","A","X">>, s_HDR))
            \o each(m.audioCodecs, <<"C","o","d","e","c"," ","a","u","d","i","o">>)
            \o each(m.audioLanguages, <<"L","a","n","g","u","e"," ","a","u","d","i","o">>)
            \o <<find(extensionOf(m), <<"E","x","t","e","n","s","i","o","n">>)>>
            \o genreTags(cache, filmGenreAliases, m.genres))

\* a || b on tag ids
orElse(a, b) == IF a # 0 THEN a ELSE b

\* the language tags of Serie.getAutoTags
serieLanguageTags(m, cache) ==
    LET find(tagName, category) == findTagIdByName(cache, serieAliases, tagName, category)
        langs == [i \in 1..Len(m.audioLanguages) |-> toLowerCase(m.audioLanguages[i])]
        Some(Test(_)) == \E i \in 1..Len(langs) : Test(langs[i])
        lowerPath == toLowerCase(m.path)
        hasFrenchTag == Some(LAMBDA l : includes(l, s_francais) \/ l = <<"f","r">> \/ l = s_french)
        hasVFQTag == Some(LAMBDA l : includes(l, s_vfq)) \/ includes(lowerPath, s_vfq)
        hasVFFTag == Some(LAMBDA l : includes(l, s_vff)) \/ includes(lowerPath, s_vff)
        hasEnglishTag == Some(LAMBDA l : includes(l, s_anglais) \/ l = s_en \/ l = s_english)
        french == orElse(find(<<"F","r","e","n","c","h">>, <<>>), find(s_Francais, <<>>))
        english == orElse(find(s_English, <<>>), find(s_Anglais, <<>>))
    IN  IF m.isVOSTFR THEN <<find(s_VOSTFR, <<>>)>>
        ELSE IF hasVFQTag THEN <<find(s_VFQ, <<>>)>>
        ELSE IF hasVFFTag THEN <<find(s_VFF, <<>>)>>
        ELSE IF Len(langs) > 1
             THEN <<find(s_MULTI, <<>>)>> \o opt(hasFrenchTag, french) \o opt(hasEnglishTag, english)
        ELSE IF hasFrenchTag THEN <<french>>
        ELSE IF hasEnglishTag THEN <<english>>
        ELSE <<>>

\* Serie.getAutoTags, the tag cache holding the categories cache
Serie_getAutoTags(m, cache) ==
    LET find(tagName, category) == findTagIdByName(cache, serieAliases, tagName, category)
        each(list, category) == [i \in 1..Len(list) |-> find(list[i], category)]
    IN  uniqueTags(
            <<orElse(find(<<"S","<e'>","r","i","e">>, <<"T","y","p","e">>), find(<<"S","e","r","i","e">>, <<"T","y","p","e">>))>>
            \o opt(m.isPack, orElse(find(<<"P","a","c","k"," ","S","a","i","s","o","n">>, <<>>), find(<<"S","a","i","s","o","n">>, <<>>)))
            \o <<find(m.resolution, <<"R","<e'>","s","o","l","u","t","i","o","n">>),
                 find(m.source, <<"S","o","u","r","c","e">>),
                 find(m.codec, <<"C","o","d","e","c"," ","v","i","d","<e'>","o">>)>>
            \o each(m.hdr, s_HDR)
            \o each(m.audioCodecs, <<"C","o","d","e","c"," ","a","u","d","i","o">>)
            \o each(m.audioLanguages, <<"L","a","n","g","u","e"," ","a","u","d","i","o">>)
            \o <<find(extensionOf(m), <<"E","x","t","e","n","s","i","o","n">>)>>
            \o serieLanguageTags(m, cache)
            \o genreTags(cache, serieGenreAliases, m.genres))

\* media.getAutoTags()
getAutoTags(m, cache) ==
    IF m.cls = "Serie" THEN Serie_getAutoTags(m, cache) ELSE Film_getAutoTags(m, cache)

-----------------------------------------------------------------------------
(* Scenario "tags": the tag cache holds the categories of the tracker and  *)
(* a media object infers its tags.                                         *)

MaxGenres == 2

FilmTag == [id |-> 1, name |-> <<"F","i","l","m">>]
SerieTag == [id |-> 2, name |-> <<"S","<e'>","r","i","e">>]
TelefilmTag == [id |-> 3, name |-> <<"T","<e'>","l","<e'>","f","i","l","m">>]
DrameTag == [id |-> 4, name |-> <<"D","r","a","m","e">>]
ComedieTag == [id |-> 5, name |-> <<"C","o","m","<e'>","d","i","e">>]
FullHdTag == [id |-> 6, name |-> <<"1","0","8","0","p"," ","(","F","u","l","l"," ","H","D",")">>]

TypeCategories ==
    {<<>>,
     <<[name |-> <<"T","y","p","e">>, tags |-> <<FilmTag, SerieTag>>]>>,
     <<[name |-> <<"T","y","p","e">>, tags |-> <<SerieTag>>]>>}

GenreCategories ==
    {<<[name |-> <<"G","e","n","r","e","s">>, tags |-> t]>> :
        t \in {<<TelefilmTag, DrameTag>>, <<DrameTag, ComedieTag, TelefilmTag>>, <<DrameTag>>}}

ResolutionCategories ==
    {<<>>, <<[name |-> <<"Q","u","a","l","i","t","<e'>"," ","/"," ","R","<e'>","s","o","l","u","t","i","o","n">>, tags |-> <<FullHdTag>>]>>}

Taxonomies ==
    {t \o g \o r : t \in TypeCategories, g \in GenreCategories, r \in ResolutionCategories}
    \cup {r \o g \o t : t \in TypeCategories, g \in GenreCategories, r \in ResolutionCategories}

s_Telefilm == <<"T","<e'>","l","<e'>","f","i","l","m">>
s_Drame == <<"D","r","a","m","e">>

GenreNames == {s_Telefilm, s_telefilm, s_Drame, <<"C","o","m","e","d","y">>}

TagBags ==
    {[b EXCEPT !.genres = g, !.resolution = r] :
        b \in {newFilm(<<"M","o","v","i","e",".","m","k","v">>), [newSerie(<<"S","h","o","w",".","S","0","1">>) EXCEPT !.isPack = TRUE]},
        g \in StringsUpTo(GenreNames, MaxGenres),
        r \in {<<>>, s_1080p}}

InitTags ==
    /\ pc = "cache"
    /\ taxonomy \in Taxonomies
    /\ media \in TagBags
    /\ autoTags = <<>>
    /\ name = <<>>
    /\ langParts = <<>>
    /\ hdrParts = <<>>
    /\ title = <<>>
    /\ once = <<>>
    /\ twice = <<>>
    /\ NoFile
    /\ NoCalls
    /\ NoPage

\* media.getAutoTags(), the tag cache already loaded
GetAutoTags ==
    /\ pc = "cache"
    /\ autoTags' = getAutoTags(media, taxonomy)
    /\ pc' = "tagged"
    /\ UNCHANGED <<titleVars, nameVars, inputVars, parseVars, taxonomy, cacheVars, pageVars>>

NextTags == GetAutoTags

SpecTags == InitTags /\ [][NextTags]_vars

\* the tag ids returned
TagIds == {autoTags[i] : i \in 1..Len(autoTags)}

\* the genre list is the single genre Telefilm
SoleTelefilm == Len(media.genres) = 1 /\ norm(media.genres[1]) = s_telefilm

\* C5: the tag ids getAutoTags returns hold the id of the "Telefilm" tag
\* only if Telefilm is the sole genre of the media; with the genres
\* Telefilm and Drame they hold the id of the Drame tag and not the id of
\* the Telefilm tag
C5_TelefilmOnlyWhenSole ==
    pc = "tagged" =>
        /\ TelefilmTag.id \in TagIds => SoleTelefilm
        /\ media.genres = <<s_Telefilm, s_Drame>> =>
              DrameTag.id \in TagIds /\ TelefilmTag.id \notin TagIds

-----------------------------------------------------------------------------
(* Scenario "probe": a MediaInfo report whose Video track varies in its    *)
(* dimensions is parsed.                                                   *)

Widths ==
    {<<>>, <<"a","b","c">>, <<"0">>, <<"-","5">>, <<"6","4","0">>, <<"1","2","7","9">>, <<"1","2","8","0">>, <<"1","9","1","9">>, <<"1","9","2","0">>, <<"3","8","3","9">>, <<"3","8","4","0">>,
     <<" ","4","0","9","6"," ","p","i","x","e","l","s">>}

Heights ==
    {<<>>, <<"N","/","A">>, <<"0">>, <<"4","8","0">>, <<"6","9","9">>, <<"7","0","0">>, <<"9","9","9">>, <<"1","0","0","0">>, <<"1","0","8","0">>, <<"2","0","9","9">>, <<"2","1","0","0">>, <<"2","1","6","0">>}

ProbeVideoTracks ==
    {[present |-> TRUE, Width |-> w, Height |-> h, Format |-> f,
      Encoded_Library |-> <<>>, HDR_Format |-> d,
      HDR_Format_Compatibility |-> <<>>, transfer_characteristics |-> <<>>] :
        w \in Widths, h \in Heights, f \in {<<>>, s_AVC},
        d \in {<<>>, <<"S","M","P","T","E"," ","S","T"," ","2","0","8","6",","," ","H","D","R","1","0"," ","c","o","m","p","a","t","i","b","l","e">>}}

ForcedFrenchText ==
    [Language |-> <<"f","r">>, Title |-> <<"F","o","r","c","e","d">>, Format |-> <<"U","T","F","-","8">>, Forced |-> <<>>]

ProbeReports ==
    {[isText |-> FALSE, general |-> <<"M","a","t","r","o","s","k","a">>, video |-> v, audio |-> a, text |-> t] :
        v \in ProbeVideoTracks,
        a \in {<<>>, <<AudioTrackOf(<<"E","n","g","l","i","s","h">>)>>},
        t \in {<<>>, <<ForcedFrenchText>>}}

InitProbe ==
    /\ pc = "parsed"
    /\ report \in ProbeReports
    /\ fileName = <<>>
    /\ directoryAnalysis = NoAnalysis
    /\ forcedType = ""
    /\ releaseInfo = <<>>
    /\ mediaInfo = <<>>
    /\ detectedType = "none"
    /\ media = NoMedia
    /\ name = <<>>
    /\ langParts = <<>>
    /\ hdrParts = <<>>
    /\ title = <<>>
    /\ once = <<>>
    /\ twice = <<>>
    /\ NoTaxonomy
    /\ NoCalls
    /\ NoPage

NextProbe == ParseMediaInfo

SpecProbe == InitProbe /\ [][NextProbe]_vars

\* a report with a Video track has been parsed
VideoProbed == pc = "probed" /\ ~report.isText /\ report.video.present

\* the attributes that do not depend on the dimensions are derived
OthersDerived ==
    /\ report.video.Format = s_AVC => mediaInfo.codec = s_x264
    /\ truthy(report.video.HDR_Format) => mediaInfo.hdr = <<s_HDR10>>
    /\ Len(mediaInfo.audioLanguages) = Len(report.audio)
    /\ Len(report.audio) > 0 => mediaInfo.audioCodecs = <<s_AC3>>
    /\ Len(mediaInfo.subtitleLanguages) = Len(report.text)
    /\ \A i \in 1..Len(report.text) : truthy(mediaInfo.subtitleLanguages[i])

\* the resolution is that of the highest tier one of whose thresholds the
\* width w or the height h meets
HighestTier(w, h) ==
    LET Met(tw, th) == w >= tw \/ h >= th
    IN  /\ Met(3840, 2100) => mediaInfo.resolution = <<"2","1","6","0","p">>
        /\ ~Met(3840, 2100) /\ Met(1920, 1000) => mediaInfo.resolution = <<"1","0","8","0","p">>
        /\ ~Met(1920, 1000) /\ Met(1280, 700) => mediaInfo.resolution = <<"7","2","0","p">>
        /\ ~Met(1280, 700) /\ (w > 0 \/ h > 0) => mediaInfo.resolution = <<"4","8","0","p">>

\* neither dimension is a number: no resolution, the rest is derived
UnparseableSkipped ==
    (parseInt(report.video.Width).nan /\ parseInt(report.video.Height).nan) =>
        /\ mediaInfo.resolution = <<>>
        /\ OthersDerived

\* C11 (as amended): the resolution is that of the highest tier whose width
\* or height threshold is met; width 3840 gives 2160p whatever the height,
\* width 1920 gives 1080p whenever the height is below 2100; when neither
\* dimension parses no resolution is set and codec, HDR, audio and
\* subtitles are still derived
C11_HighestTierMet ==
    VideoProbed =>
        /\ HighestTier(parseIntOrZero(report.video.Width), parseIntOrZero(report.video.Height))
        /\ report.video.Width = <<"3","8","4","0">> => mediaInfo.resolution = <<"2","1","6","0","p">>
        /\ (report.video.Width = <<"1","9","2","0">> /\ parseIntOrZero(report.video.Height) < 2100) =>
              mediaInfo.resolution = <<"1","0","8","0","p">>
        /\ UnparseableSkipped

\* width 1920 with a height under every threshold of its own
C11_Witness ==
    /\ VideoProbed
    /\ report.video.Width = <<"1","9","2","0">>
    /\ report.video.Height = <<"6","9","9">>
    /\ mediaInfo.resolution = <<"1","0","8","0","p">>

\* C11 (as stated): as above, but width 1920 gives 1080p whatever the
\* height
C11_Width1920Is1080p ==
    VideoProbed =>
        /\ HighestTier(parseIntOrZero(report.video.Width), parseIntOrZero(report.video.Height))
        /\ report.video.Width = <<"3","8","4","0">> => mediaInfo.resolution = <<"2","1","6","0","p">>
        /\ report.video.Width = <<"1","9","2","0">> => mediaInfo.resolution = <<"1","0","8","0","p">>
        /\ UnparseableSkipped

-----------------------------------------------------------------------------
(* Scenario "slots": movie bags in which a chosen set of slots is filled,  *)
(* each with a value whose token is known, composed by both composers.     *)

\* the slots in the order of the specification: the token of the slot (for
\* the audio codec, the codec token and the audio-spec token that follows
\* the channel layout)
SlotNames ==
    <<"title", "threeD", "threeDType", "year", "info", "edition", "imax",
      "language", "languageInfo", "hdr", "resolution", "platform", "source",
      "audioCodecs", "audioChannels", "audioSpec", "codec", "releaseGroup">>

Slots == {SlotNames[i] : i \in 1..Len(SlotNames)} \ {"audioSpec"}

\* the sets of filled slots: none, one, two, all but one, all
SlotSets ==
    {S \in SUBSET Slots : Cardinality(S) <= 2 \/ Cardinality(S) >= Cardinality(Slots) - 1}

\* the bag whose filled slots are those of S
SlotBag(S) ==
    [EmptyBag EXCEPT
        !.title = IF "title" \in S THEN <<"M","o","v","i","e">> ELSE <<>>,
        !.threeD = "threeD" \in S,
        !.threeDType = IF "threeDType" \in S THEN <<"H","S","B","S">> ELSE <<>>,
        !.year = IF "year" \in S THEN s_2019 ELSE <<>>,
        !.info = IF "info" \in S THEN <<"r","e","p","a","c","k">> ELSE <<>>,
        !.edition = IF "edition" \in S THEN <<"U","N","R","A","T","E","D">> ELSE <<>>,
        !.imax = "imax" \in S,
        !.language = IF "language" \in S THEN s_FRENCH ELSE <<>>,
        !.languageInfo = IF "languageInfo" \in S THEN <<"v","f","i">> ELSE <<>>,
        !.hdr = IF "hdr" \in S THEN <<s_DV>> ELSE <<>>,
        !.resolution = IF "resolution" \in S THEN s_1080p ELSE <<>>,
        !.platform = IF "platform" \in S THEN <<"n","f">> ELSE <<>>,
        !.source = IF "source" \in S THEN s_WEB_DL ELSE <<>>,
        !.audioCodecs = IF "audioCodecs" \in S THEN <<<<"T","r","u","e","H","D"," ","A","t","m","o","s">>>> ELSE <<>>,
        !.audioChannels = IF "audioChannels" \in S THEN <<"5",".","1">> ELSE <<>>,
        !.codec = IF "codec" \in S THEN s_HEVC ELSE <<>>,
        !.releaseGroup = IF "releaseGroup" \in S THEN s_GRP ELSE <<>>]

SlotBags == {SlotBag(S) : S \in SlotSets}

InitSlots ==
    /\ pc = "bag"
    /\ media \in SlotBags
    /\ name = <<>>
    /\ langParts = <<>>
    /\ hdrParts = <<>>
    /\ title = <<>>
    /\ once = <<>>
    /\ twice = <<>>
    /\ NoFile
    /\ NoTaxonomy
    /\ NoCalls
    /\ NoPage

SpecSlots == InitSlots /\ [][NextName]_vars

\* the token the specification gives a filled slot of SlotBag
SlotToken(slot) ==
    CASE slot = "title" -> <<"M","o","v","i","e">>
      [] slot = "threeD" -> s_3D
      [] slot = "threeDType" -> <<"H","S","B","S">>
      [] slot = "year" -> s_2019
      [] slot = "info" -> <<"R","E","P","A","C","K">>
      [] slot = "edition" -> <<"U","N","R","A","T","E","D">>
      [] slot = "imax" -> s_iMAX
      [] slot = "language" -> s_FRENCH
      [] slot = "languageInfo" -> <<"V","F","I">>
      [] slot = "hdr" -> s_DV
      [] slot = "resolution" -> s_1080p
      [] slot = "platform" -> <<"N","F">>
      [] slot = "source" -> s_WEB_DL
      [] slot = "audioCodecs" -> s_TrueHD
      [] slot = "audioChannels" -> <<"5",".","1">>
      [] slot = "audioSpec" -> s_Atmos
      [] slot = "codec" -> s_x265

\* slot i of the order is filled in bag m
SlotFilled(m, slot) ==
    CASE slot = "title" -> truthy(m.title)
      [] slot = "threeD" -> m.threeD
      [] slot = "threeDType" -> truthy(m.threeDType)
      [] slot = "year" -> truthy(m.year)
      [] slot = "info" -> truthy(m.info)
      [] slot = "edition" -> truthy(m.edition)
      [] slot = "imax" -> m.imax
      [] slot = "language" -> truthy(m.language)
      [] slot = "languageInfo" -> truthy(m.languageInfo)
      [] slot = "hdr" -> truthy(m.hdr)
      [] slot = "resolution" -> truthy(m.resolution)
      [] slot = "platform" -> truthy(m.platform)
      [] slot = "source" -> truthy(m.source)
      [] slot = "audioCodecs" -> truthy(m.audioCodecs)
      [] slot = "audioChannels" -> truthy(m.audioChannels)
      [] slot = "audioSpec" -> truthy(m.audioCodecs)
      [] slot = "codec" -> truthy(m.codec)
      [] slot = "releaseGroup" -> FALSE

\* the name the fixed order gives bag m
RECURSIVE SlotTokensFrom(_, _)
SlotTokensFrom(m, i) ==
    IF i > Len(SlotNames) THEN <<>>
    ELSE opt(SlotFilled(m, SlotNames[i]), SlotToken(SlotNames[i])) \o SlotTokensFrom(m, i + 1)

NameInSlotOrder(m) == join(SlotTokensFrom(m, 1), <<".">>) \o <<"-">> \o TeamOf(m)

\* C12: for every movie bag the composed name holds the token of each
\* filled slot exactly once, in the order title, 3D flag/type, year, info,
\* edition, IMAX, language, secondary language, HDR, resolution, platform,
\* source, audio codec, channel layout, audio spec, video codec, then
\* "-<group>"; an empty slot contributes nothing
C12_FixedSlotOrder == Composed => name = NameInSlotOrder(media)

-----------------------------------------------------------------------------
(* The other two composers of a series name: the first Serie class of      *)
(* Serie.js, whose isPack is a plain field, and generateSeriesReleaseName. *)

\* slot 4 of the first Serie.generateName when isPack does not hold
firstEpisodeBranch(m) ==
    IF truthy(m.season) /\ truthy(m.episode) THEN <<formatSeason(m) \o formatEpisode(m)>>
    ELSE IF truthy(m.episode) THEN <<formatEpisode(m)>>
    ELSE opt(truthy(m.season), formatSeason(m))

\* the first Serie.generateName
FirstSerie_generateName(m) ==
    withTeam(
        opt(truthy(m.title), normalizeTitle(m.title))
        \o opt(m.threeD, s_3D)
        \o opt(truthy(m.threeDType), m.threeDType)
        \o opt(truthy(m.year), m.year)
        \o (IF m.isPack THEN packBranch(m) ELSE firstEpisodeBranch(m))
        \o opt(truthy(m.info), toUpperCase(m.info))
        \o opt(truthy(m.edition), m.edition)
        \o opt(m.imax, s_iMAX)
        \o getLanguageParts(m)
        \o getHdrParts(m)
        \o opt(truthy(getResolutionPart(m)), getResolutionPart(m))
        \o opt(truthy(m.platform), toUpperCase(m.platform))
        \o opt(truthy(getSourcePart(m)), getSourcePart(m))
        \o getAudioParts(m)
        \o opt(truthy(getCodecPart(m)), getCodecPart(m)),
        m)

\* slot 4 of generateSeriesReleaseName
seasonEpisodePart(m, mediaType) ==
    IF mediaType = "season"
    THEN IF ~truthy(m.season) THEN <<>>
         ELSE IF toUpperCase(m.season) \in {toUpperCase(s_Complete), toUpperCase(s_Integrale)}
              THEN <<toUpperCase(s_Complete)>>
              ELSE <<toUpperCase(m.season)>>
    ELSE IF truthy(m.season) /\ truthy(m.episode)
         THEN <<toUpperCase(m.season) \o toUpperCase(m.episode)>>
    ELSE IF truthy(m.episode) THEN <<toUpperCase(m.episode)>>
    ELSE opt(truthy(m.season), toUpperCase(m.season))

\* generateSeriesReleaseName(info, mediaType)
generateSeriesReleaseName(m, mediaType) ==
    withTeam(
        opt(truthy(m.title), normalizeTitle(m.title))
        \o opt(m.threeD, s_3D)
        \o opt(truthy(m.threeDType), m.threeDType)
        \o opt(truthy(m.year), m.year)
        \o seasonEpisodePart(m, mediaType)
        \o opt(truthy(m.info), toUpperCase(m.info))
        \o opt(truthy(m.edition), m.edition)
        \o opt(m.imax, s_iMAX)
        \o generateLanguageParts(m)
        \o generateLanguageInfoParts(m)
        \o getHdrParts(m)
        \o opt(truthy(m.resolution), getResolutionPart(m))
        \o opt(truthy(m.platform), toUpperCase(m.platform))
        \o opt(truthy(generateSourcePart(m)), generateSourcePart(m))
        \o generateAudioParts(m)
        \o opt(truthy(m.codec), getCodecPart(m)),
        m)

-----------------------------------------------------------------------------
(* Scenario "series": a series bag is composed by each composer; the media *)
(* type handed to generateReleaseName is AppState.mediaType, kept in       *)
(* detectedType.                                                           *)

s_S01 == <<"S","0","1">>
s_E05 == <<"E","0","5">>
s_COMPLETE == <<"C","O","M","P","L","E","T","E">>

SeriesBags ==
    {[EmptyBag EXCEPT !.cls = "Serie", !.type = "serie", !.title = t, !.season = s,
                      !.episode = e, !.isPack = p, !.isComplete = c,
                      !.releaseGroup = g, !.resolution = r] :
        t \in {<<>>, s_Show},
        s \in {<<>>, s_S01, s_COMPLETE, <<"I","n","t","e","g","r","a","l","e">>},
        e \in {<<>>, s_E05},
        p \in BOOLEAN,
        c \in BOOLEAN,
        g \in {<<>>, s_GRP},
        r \in {<<>>, s_1080p}}

InitSeries ==
    /\ pc = "bag"
    /\ media \in SeriesBags
    /\ detectedType \in {"season", "episode"}
    /\ fileName = <<>>
    /\ report = <<>>
    /\ directoryAnalysis = NoAnalysis
    /\ forcedType = ""
    /\ releaseInfo = <<>>
    /\ mediaInfo = <<>>
    /\ name = <<>>
    /\ langParts = <<>>
    /\ hdrParts = <<>>
    /\ title = <<>>
    /\ once = <<>>
    /\ twice = <<>>
    /\ NoTaxonomy
    /\ NoCalls
    /\ NoPage

\* serie.episode = val on the second Serie class: the setter recomputes
\* isPack
SetEpisode ==
    /\ pc = "bag"
    /\ \E val \in {<<>>, s_E05} : media' = setEpisode(media, val)
    /\ pc' = "set"
    /\ UNCHANGED <<name, langParts, hdrParts, titleVars, inputVars, parseVars, tagVars, cacheVars, pageVars>>

\* generateName() of the second Serie class
GenerateSerieName ==
    /\ pc \in {"bag", "set"}
    /\ name' = Serie_generateName(media)
    /\ langParts' = getLanguageParts(media)
    /\ hdrParts' = getHdrParts(media)
    /\ pc' = "serie"
    /\ UNCHANGED <<media, titleVars, inputVars, parseVars, tagVars, cacheVars, pageVars>>

\* generateName() of the first Serie class
GenerateFirstSerieName ==
    /\ pc = "bag"
    /\ name' = FirstSerie_generateName(media)
    /\ langParts' = getLanguageParts(media)
    /\ hdrParts' = getHdrParts(media)
    /\ pc' = "firstSerie"
    /\ UNCHANGED <<media, titleVars, inputVars, parseVars, tagVars, cacheVars, pageVars>>

\* generateReleaseName(info, AppState.mediaType) for a series
GenerateSeriesReleaseName ==
    /\ pc = "bag"
    /\ name' = generateSeriesReleaseName(media, detectedType)
    /\ langParts' = generateLanguageParts(media)
    /\ hdrParts' = getHdrParts(media)
    /\ pc' = "legacySeries"
    /\ UNCHANGED <<media, titleVars, inputVars, parseVars, tagVars, cacheVars, pageVars>>

NextSeries ==
    \/ SetEpisode
    \/ GenerateSerieName
    \/ GenerateFirstSerieName
    \/ GenerateSeriesReleaseName
    \/ GenerateName
    \/ GenerateReleaseName

SpecSeries == InitSeries /\ [][NextSeries]_vars

\* a series composer has composed the name
SeriesComposed == pc \in {"serie", "firstSerie", "legacySeries"}

\* the bag is composed as a pack: isPack for the classes, the media type
\* 'season' for generateReleaseName
ComposedAsPack == IF pc = "legacySeries" THEN detectedType = "season" ELSE media.isPack

\* the pack is a full-series pack: the season is the sentinel, or the
\* object is flagged complete
FullSeries ==
    \/ toUpperCase(media.season) \in {s_COMPLETE, <<"I","N","T","E","G","R","A","L","E">>}
    \/ pc # "legacySeries" /\ media.isComplete

\* the season/episode slot the specification gives the bag
DesignatorSlot ==
    IF ComposedAsPack
    THEN IF FullSeries THEN s_COMPLETE ELSE media.season
    ELSE media.season \o media.episode

\* the name with the designator slot between the title and the resolution
NameWithDesignator ==
    join(opt(truthy(media.title), media.title)
         \o opt(truthy(DesignatorSlot), DesignatorSlot)
         \o opt(truthy(media.resolution), media.resolution), <<".">>)
    \o <<"-">> \o TeamOf(media)

AnyComposed == Composed \/ SeriesComposed

\* the number of places of s where sub occurs
occurrences(s, sub) ==
    Cardinality({i \in 1..(Len(s) - Len(sub) + 1) : SubSeq(s, i, i + Len(sub) - 1) = sub})

\* C14: for every bag and every composer the composed name is not empty and
\* ends with "-" followed by the release group of the bag, or by NoTag when
\* the bag has none, and that suffix occurs once
C14_GroupSuffix ==
    AnyComposed =>
        /\ name # <<>>
        /\ endsWith(name, <<"-">> \o TeamOf(media))
        /\ truthy(media.releaseGroup) => endsWith(name, <<"-">> \o media.releaseGroup)
        /\ ~truthy(media.releaseGroup) => endsWith(name, <<"-","N","o","T","a","g">>)
        /\ occurrences(name, <<"-">> \o TeamOf(media)) = 1

\* a bag without release group, composed with the sentinel
C14_Witness ==
    /\ AnyComposed
    /\ media.releaseGroup = <<>>
    /\ name = <<"S","h","o","w",".","1","0","8","0","p","-","N","o","T","a","g">>

\* C15: each canonical HDR label appears at most once among the HDR tokens
\* of the composed name, also when the HDR list of the bag repeats a label
\* or holds two spellings of it
C15_HdrDeduplicated ==
    (Composed /\ KnownHdrInput) =>
        /\ includes(name, join(hdrParts, <<".">>))
        /\ \A k \in 1..Len(HdrPriority) :
              Cardinality({i \in 1..Len(hdrParts) : hdrParts[i] = HdrPriority[k]}) <= 1


\* the HDR token is a label of the priority vocabulary
KnownHdrToken(token) == \E k \in 1..Len(HdrPriority) : HdrPriority[k] = token

\* C16: when the HDR list mixes labels of the priority vocabulary with
\* labels outside it, every unknown label comes after all known labels in
\* the composed name
C16_UnknownHdrLast ==
    Composed =>
        /\ includes(name, join(hdrParts, <<".">>))
        /\ \A i, j \in 1..Len(hdrParts) :
              (KnownHdrToken(hdrParts[i]) /\ ~KnownHdrToken(hdrParts[j])) => i < j

-----------------------------------------------------------------------------
(* Scenario "sources": movie bags that mention source keywords in the      *)
(* source field, the release group and the tags.                           *)

SourceBags ==
    {[EmptyBag EXCEPT !.title = <<"a">>, !.source = s, !.releaseGroup = g, !.tags = t] :
        s \in {<<>>, s_BluRay, <<"B","D","R","i","p">>, s_WEB, s_WEB_DL, s_HDTV},
        g \in {<<>>, s_GRP, s_REMUX},
        t \in {<<>>, <<s_REMUX>>, <<s_WEB>>, <<s_HDLight, s_GRP>>}}

InitSources ==
    /\ pc = "bag"
    /\ media \in SourceBags
    /\ name = <<>>
    /\ langParts = <<>>
    /\ hdrParts = <<>>
    /\ title = <<>>
    /\ once = <<>>
    /\ twice = <<>>
    /\ NoFile
    /\ NoTaxonomy
    /\ NoCalls
    /\ NoPage

SpecSources == InitSources /\ [][NextName]_vars

\* the known source keywords with their spellings, in upper case
KnownSources ==
    <<[source |-> s_REMUX, spellings |-> {s_REMUX}],
      [source |-> s_WEB_DL, spellings |-> {s_WEB_DL, s_WEBDL}],
      [source |-> s_WEB, spellings |-> {}],
      [source |-> s_WEBRip, spellings |-> {<<"W","E","B","R","I","P">>}],
      [source |-> s_HDTV, spellings |-> {s_HDTV}],
      [source |-> s_HDLight, spellings |-> {<<"H","D","L","I","G","H","T">>}],
      [source |-> s_4KLight, spellings |-> {<<"4","K","L","I","G","H","T">>}],
      [source |-> s_BluRay, spellings |-> {<<"B","L","U","R","A","Y">>, s_BLU_RAY, s_BDRIP, s_BRRIP}],
      [source |-> s_DVDRip, spellings |-> {<<"D","V","D","R","I","P">>, s_DVD_RIP}]>>

\* the texts of bag m in which a source keyword may be found
SourceTexts(m) ==
    {toUpperCase(m.source), toUpperCase(m.releaseGroup)}
    \cup {toUpperCase(m.tags[i]) : i \in 1..Len(m.tags)}

\* keyword k is found in bag m; WEB only as a whole word of its own
SourceFound(k, m) ==
    \/ \E text \in SourceTexts(m) : \E sp \in KnownSources[k].spellings : includes(text, sp)
    \/ KnownSources[k].source = s_WEB /\ s_WEB \in SourceTexts(m)

\* the keywords found in bag m
SourcesFound(m) ==
    {KnownSources[k].source : k \in {k \in 1..Len(KnownSources) : SourceFound(k, m)}}

\* the ways of joining with "." the tokens of a set, each token once
JoinedOnce(tokens) ==
    {join(order, <<".">>) :
        order \in {o \in [1..Cardinality(tokens) -> tokens] : SetOf(o) = tokens}}

\* the composed name of bag m holds exactly the slot after the title "A"
HasSourceSlot(m, slot) ==
    name = join(<<<<"A">>>> \o opt(truthy(slot), slot), <<".">>) \o <<"-">> \o TeamOf(m)

\* C17: the source slot of the composed name is the deduplicated union of
\* the known source keywords found in the source field, the release group
\* or the tags, joined with "."; source BluRay with a tag or group that
\* mentions REMUX gives "REMUX.BluRay", and an alias of a detected keyword
\* is not repeated; for every composer
C17_SourceUnion ==
    Composed =>
        /\ \E slot \in JoinedOnce(SourcesFound(media)) : HasSourceSlot(media, slot)
        /\ SourcesFound(media) = {s_REMUX, s_BluRay} =>
              HasSourceSlot(media, s_REMUX \o <<".">> \o s_BluRay)


-----------------------------------------------------------------------------
(* Scenario "classification": the media type of a selected item, as        *)
(* MediaFactory.detectType answers it from the parsed name and as          *)
(* startWorkflow selects it.  The directory analysis is the answer of      *)
(* analyzeDirectory (isDirectory, isSeriesPack, detectedSeason,            *)
(* episodeCount), with or without the isPack property detectType reads.    *)

\* generateReleaseName(info, mediaType)
generateReleaseName(info, mediaType) ==
    IF mediaType = "movie" THEN generateMovieReleaseName(info)
    ELSE IF mediaType \in {"season", "episode"} THEN generateSeriesReleaseName(info, mediaType)
    ELSE info.title

\* the media type startWorkflow selects when there is no series pack:
\* the type of the file listing, then the season and the episode of the
\* parsed name
selectedWithoutPack(info, mediaType) ==
    IF mediaType = "ebook" THEN "ebook"
    ELSE IF mediaType = "game" THEN "game"
    ELSE IF truthy(info.season) \/ truthy(info.episode)
         THEN IF truthy(info.episode) /\ ~truthy(info.season) THEN "episode"
              ELSE IF truthy(info.season) THEN "season"
              ELSE "episode"
    ELSE "movie"

\* the media type startWorkflow selects; a failed analysis falls back to
\* the selection without a pack
selectedType(info, analysis, mediaType) ==
    IF analysis.present /\ analysis.isDirectory /\ analysis.isSeriesPack
    THEN "season"
    ELSE selectedWithoutPack(info, mediaType)

\* AppState.releaseInfo after startWorkflow has read the analysis
withAnalysis(info, analysis) ==
    IF analysis.present /\ analysis.isDirectory /\ analysis.isSeriesPack
    THEN [info EXCEPT
            !.season = IF truthy(analysis.detectedSeason) THEN analysis.detectedSeason ELSE @,
            !.episodeCount = analysis.episodeCount]
    ELSE info

\* name.replace(/\.[^/.]+$/, '')
withoutLastExtension(s) ==
    LET dots == {i \in 1..Len(s) :
                    /\ s[i] = "."
                    /\ i < Len(s)
                    /\ \A j \in (i + 1)..Len(s) : s[j] \notin {"/", "."}}
    IN  IF dots = {} THEN s ELSE SubSeq(s, 1, (CHOOSE i \in dots : TRUE) - 1)

ClassifiedNames ==
    ShowNames
    \cup {s_Example_Movie, s_canonical,
          <<"S","h","o","w",".","S","a","i","s","o","n"," ","2">>, <<"S","h","o","w",".","S","e","a","s","o","n"," ","2">>, <<"S","h","o","w",".","C","o","m","p","l","e","t","e">>, <<"S","h","o","w",".","S","0","2">>,
          <<"S","h","o","w",".","S","0","1","E","0","5",".","m","k","v">>}

DirectoryAnalyses ==
    {NoAnalysis}
    \cup {[present |-> TRUE, isDirectory |-> TRUE, isSeriesPack |-> p,
           isPack |-> k, episodeCount |-> n, detectedSeason |-> s, season |-> s,
           isComplete |-> FALSE] :
            p \in BOOLEAN, k \in {"true", "false", "undefined"}, n \in {0, 1, 10},
            s \in {<<>>, s_S01}}

ListedTypes == {"", "ebook", "game"}

InitClassify ==
    /\ pc = "file"
    /\ fileName \in ClassifiedNames
    /\ directoryAnalysis \in
          {a \in DirectoryAnalyses :
              a.present => a.isPack \in {"undefined", IF a.isSeriesPack THEN "true" ELSE "false"}}
    /\ report = TextReport
    /\ forcedType = ""
    /\ releaseInfo = <<>>
    /\ mediaInfo = <<>>
    /\ detectedType = "none"
    /\ media = NoMedia
    /\ name = <<>>
    /\ langParts = <<>>
    /\ hdrParts = <<>>
    /\ title = <<>>
    /\ once = <<>>
    /\ twice = <<>>
    /\ NoTaxonomy
    /\ NoCalls
    /\ NoPage

\* MediaFactory.detectType(path, releaseInfo, directoryAnalysis)
DetectType ==
    /\ pc = "parsed"
    /\ detectedType' = detectType(fileName, releaseInfo, directoryAnalysis)
    /\ pc' = "detected"
    /\ UNCHANGED <<titleVars, nameVars, inputVars, releaseInfo, mediaInfo, tagVars, cacheVars, pageVars>>

\* generatedName || fallback
orName(generatedName, fallback) ==
    IF truthy(generatedName) THEN generatedName ELSE fallback

\* startWorkflow(path, name, mediaType)
StartWorkflow ==
    /\ pc = "file"
    /\ releaseInfo' = withAnalysis(parseReleaseName(fileName), directoryAnalysis)
    /\ \E mediaType \in ListedTypes :
          detectedType' = selectedType(releaseInfo', directoryAnalysis, mediaType)
    /\ name' = orName(generateReleaseName(releaseInfo', detectedType'),
                      withoutLastExtension(fileName))
    /\ pc' = "started"
    /\ UNCHANGED <<titleVars, media, langParts, hdrParts, inputVars, mediaInfo, tagVars, cacheVars, pageVars>>

NextClassify == ParseReleaseName \/ DetectType \/ StartWorkflow

SpecClassify == InitClassify /\ [][NextClassify]_vars

\* the directory analysis flags a series pack
FlagsPack ==
    /\ directoryAnalysis.present
    /\ directoryAnalysis.isSeriesPack

\* the attribute bag parsed from the name
ParsedBag == parseReleaseName(fileName)

\* the variant the decision order gives to the selected item
Variant ==
    IF FlagsPack THEN "season"
    ELSE IF seasonPackPatterns(lastSegment(fileName)) THEN "season"
    ELSE IF episodePatterns(lastSegment(fileName)) THEN "episode"
    ELSE IF truthy(ParsedBag.season) /\ truthy(ParsedBag.episode) THEN "episode"
    ELSE IF truthy(ParsedBag.season) THEN "season"
    ELSE "movie"

\* the item has been classified as a movie, a season pack or an episode
Classified ==
    /\ pc \in {"detected", "started"}
    /\ detectedType \notin {"ebook", "game"}

\* C18: the variant chosen by MediaFactory.detectType and the type selected
\* by startWorkflow are the first applicable rule of the decision order:
\* a flagged series pack is a season pack whatever the name, else a
\* season-pack name pattern gives a season pack, else an episode name
\* pattern gives an episode (so "S01E05" is an episode), else a bag with
\* season and episode is an episode and with a season only a season pack,
\* else a movie
C18_FirstApplicableVariant ==
    Classified => detectedType = Variant


-----------------------------------------------------------------------------
(* Scenario "overlay": startWorkflow parses the name and reads the         *)
(* directory analysis, a metadata entry is selected and its genres are     *)
(* stored in the bag, then step 3 loads the technical report.              *)

\* parseReleaseName(name, nfoContent)
parseReleaseNameWith(rawName, nfoContent) ==
    assign(parseReleaseName(rawName), parseMediaInfo(nfoContent))

\* path.split('/').pop()
afterLastSlash(path) ==
    LET seps == {i \in 1..Len(path) : path[i] = "/"}
    IN  IF seps = {} THEN path
        ELSE SubSeq(path, (CHOOSE i \in seps : \A j \in seps : j <= i) + 1, Len(path))

\* the selected items, each named by the last segment of its path
OverlayNames ==
    {s_Show, s_canonical, <<"S","h","o","w",".","S","0","1">>, <<"S","h","o","w",".","S","0","1","E","0","5",".","m","k","v">>, <<"S","h","o","w",".","p","d","f">>}

OverlayAnalyses ==
    {a \in DirectoryAnalyses : a.present => a.isPack = "undefined" /\ a.episodeCount # 1}

InitOverlay ==
    /\ pc = "file"
    /\ fileName \in OverlayNames
    /\ directoryAnalysis \in OverlayAnalyses
    /\ report \in {TextReport} \cup VideoOnlyReports
    /\ forcedType = ""
    /\ releaseInfo = <<>>
    /\ mediaInfo = <<>>
    /\ detectedType = "none"
    /\ media = NoMedia
    /\ name = <<>>
    /\ langParts = <<>>
    /\ hdrParts = <<>>
    /\ title = <<>>
    /\ once = <<>>
    /\ twice = <<>>
    /\ NoTaxonomy
    /\ NoCalls
    /\ NoPage

\* selectTmdbItem(id): the genres of the selected entry, when it has any,
\* are stored in the bag
SelectTmdbItem ==
    /\ pc = "started"
    /\ \E data \in {[genres |-> g] : g \in {<<>>, <<s_Drame>>, <<s_Drame, s_Telefilm>>}} :
          releaseInfo' = IF truthy(data.genres)
                         THEN [releaseInfo EXCEPT !.genres = data.genres]
                         ELSE releaseInfo
    /\ pc' = "selected"
    /\ UNCHANGED <<titleVars, nameVars, inputVars, mediaInfo, detectedType, tagVars, cacheVars, pageVars>>

\* initStep3(): nothing is loaded for an e-book or a game, nor when the
\* report cannot be fetched; otherwise the name is parsed again with the
\* report and the release name is composed again
LoadStep3 ==
    /\ pc \in {"started", "selected"}
    /\ \E fetched \in BOOLEAN :
          IF detectedType \in {"ebook", "game"} \/ ~fetched
          THEN UNCHANGED <<releaseInfo, name>>
          ELSE /\ releaseInfo' = parseReleaseNameWith(afterLastSlash(fileName), report)
               /\ name' = orName(generateReleaseName(releaseInfo', detectedType), name)
    /\ pc' = "step3"
    /\ UNCHANGED <<titleVars, media, langParts, hdrParts, inputVars, mediaInfo,
                   detectedType, tagVars, cacheVars, pageVars>>

NextOverlay == StartWorkflow \/ SelectTmdbItem \/ LoadStep3

SpecOverlay == InitOverlay /\ [][NextOverlay]_vars

\* the fields of the bag that are set before the report is loaded
FieldsSetBefore ==
    {"title", "year", "season", "episode", "source", "releaseGroup", "container", "genres"}

\* C19: loading the technical report in step 3 neither overwrites nor
\* drops a field of the bag that had a value: the title, the year, the
\* season, the episode, the episode count, the source, the release group,
\* the container and the genres set by startWorkflow and by the metadata
\* selection have the same value afterwards
C19_OverlayKeepsSetFields ==
    [][pc' = "step3" =>
          /\ \A f \in FieldsSetBefore :
                truthy(releaseInfo[f]) => releaseInfo'[f] = releaseInfo[f]
          /\ releaseInfo.episodeCount # 0 =>
                releaseInfo'.episodeCount = releaseInfo.episodeCount]_vars


-----------------------------------------------------------------------------
(* The media object created for a name that a season-pack pattern accepts. *)

\* the name of the selected item is accepted by a season-pack pattern and
\* the item is classified as a season pack
CreatedFromPackName ==
    /\ pc = "created"
    /\ forcedType = ""
    /\ seasonPackPatterns(lastSegment(fileName))
    /\ detectedType = "season"

\* C20: the media object created for a name accepted by a season-pack
\* pattern (bare S<nn>, "Saison <n>", "Season <n>", "Complete",
\* "Integrale") and classified as a season pack is a Serie with a season
\* designator, or marked complete, and with no episode designator
C20_PackHasSeasonNoEpisode ==
    CreatedFromPackName =>
        /\ media.cls = "Serie"
        /\ truthy(media.season) \/ media.isComplete
        /\ ~truthy(media.episode)


-----------------------------------------------------------------------------
(* Scenario "designators": series bags whose season and episode are given  *)
(* in the spellings a caller, the name parse or the directory analysis     *)
(* may supply, named by Serie.generateName and by generateReleaseName.     *)

SeasonSpellings == {<<>>, s_S01, <<"S","1">>, <<"1">>, <<"s","0","1">>, s_COMPLETE, <<"I","n","t","e","g","r","a","l","e">>}

EpisodeSpellings == {<<>>, s_E05, <<"E","5">>, <<"5">>, <<"E","1","0","5">>}

DesignatorBags ==
    {[EmptyBag EXCEPT !.cls = "Serie", !.type = "serie", !.title = s_Show,
                      !.season = s, !.episode = e, !.isPack = p] :
        s \in SeasonSpellings, e \in EpisodeSpellings, p \in BOOLEAN}

InitDesignators ==
    /\ pc = "bag"
    /\ media \in DesignatorBags
    /\ detectedType \in {"season", "episode"}
    /\ fileName = <<>>
    /\ report = <<>>
    /\ directoryAnalysis = NoAnalysis
    /\ forcedType = ""
    /\ releaseInfo = <<>>
    /\ mediaInfo = <<>>
    /\ name = <<>>
    /\ langParts = <<>>
    /\ hdrParts = <<>>
    /\ title = <<>>
    /\ once = <<>>
    /\ twice = <<>>
    /\ NoTaxonomy
    /\ NoCalls
    /\ NoPage

NextDesignators == GenerateSerieName \/ GenerateSeriesReleaseName

SpecDesignators == InitDesignators /\ [][NextDesignators]_vars

\* "S" followed by exactly two digits
IsSeasonDesignator(s) ==
    /\ Len(s) = 3
    /\ s[1] = "S"
    /\ \A i \in 2..3 : IsDigit(s[i])

\* "E" followed by at least two digits
IsEpisodeDesignator(e) ==
    /\ Len(e) >= 3
    /\ e[1] = "E"
    /\ \A i \in 2..Len(e) : IsDigit(e[i])

\* a slot in normalized form: a season or the sentinel, an episode, or a
\* season or the sentinel followed by an episode
IsNormalizedSlot(slot) ==
    \/ slot = s_COMPLETE
    \/ IsSeasonDesignator(slot)
    \/ IsEpisodeDesignator(slot)
    \/ \E n \in {3, Len(s_COMPLETE)} :
          /\ Len(slot) > n
          /\ IsSeasonDesignator(SubSeq(slot, 1, n)) \/ SubSeq(slot, 1, n) = s_COMPLETE
          /\ IsEpisodeDesignator(SubSeq(slot, n + 1, Len(slot)))

\* C21: every season or episode designator that reaches the composed name
\* is in normalized form, "S" and two digits, "E" and at least two digits,
\* or "COMPLETE", whatever the spelling the bag holds ("S1", "1",
\* "Integrale"): the name is the title alone or the title, a normalized
\* slot and the team
C21_DesignatorsNormalized ==
    (pc \in {"serie", "legacySeries"}) =>
        \/ name = s_Show \o <<"-">> \o s_NoTag
        \/ \E n \in 1..Len(name) :
              /\ name = s_Show \o <<".">> \o SubSeq(name, Len(s_Show) + 2, n)
                        \o <<"-">> \o s_NoTag
              /\ IsNormalizedSlot(SubSeq(name, Len(s_Show) + 2, n))


-----------------------------------------------------------------------------
(* Scenario "matcher": findTagIdByName looks the video codec of a media    *)
(* object up in a tag cache whose category "Codec video" lists, in any     *)
(* order, tags that match the codec x264 by name, by alias or by the       *)
(* query as a substring, and whose other category may hold a tag of the    *)
(* same name.                                                              *)

s_Codec_video == <<"C","o","d","e","c"," ","v","i","d","<e'>","o">>

CodecTags ==
    {[id |-> 11, name |-> s_x264],
     [id |-> 12, name |-> <<"A","V","C","/","H","2","6","4","/","x","2","6","4">>],
     [id |-> 13, name |-> s_AVC],
     [id |-> 14, name |-> <<"x","2","6","4"," ","1","0","b","i","t">>],
     [id |-> 15, name |-> s_HEVC]}

\* the lists of n tags of a pool, no tag twice
TagListsOf(pool, n) ==
    {l \in [1..n -> pool] : \A i, j \in 1..n : l[i] = l[j] => i = j}

CodecCategories ==
    {<<>>}
    \cup {<<[name |-> s_Codec_video, tags |-> l]>> :
            l \in TagListsOf(CodecTags, 1) \cup TagListsOf(CodecTags, 2)
                  \cup TagListsOf(CodecTags \ {[id |-> 15, name |-> s_HEVC]}, 3)}

OtherCategories ==
    {<<>>}
    \cup {<<[name |-> <<"D","i","v","e","r","s">>, tags |-> <<[id |-> 21, name |-> n]>>]>> :
            n \in {s_x264, s_AVC, <<"x","2","6","4"," ","1","0","b","i","t">>}}

CodecTaxonomies ==
    {c \o o : c \in CodecCategories, o \in OtherCategories}
    \cup {o \o c : c \in CodecCategories, o \in OtherCategories}

CodecBags ==
    {[b EXCEPT !.codec = c] :
        b \in {newFilm(<<"M","o","v","i","e",".","m","k","v">>), newSerie(<<"S","h","o","w",".","S","0","1">>)},
        c \in {s_x264, <<"X","2","6","4">>}}

InitMatcher ==
    /\ pc = "cache"
    /\ taxonomy \in CodecTaxonomies
    /\ media \in CodecBags
    /\ autoTags = <<>>
    /\ name = <<>>
    /\ langParts = <<>>
    /\ hdrParts = <<>>
    /\ title = <<>>
    /\ once = <<>>
    /\ twice = <<>>
    /\ NoFile
    /\ NoCalls
    /\ NoPage

\* const codecId = findTagIdByName(this.codec, 'Codec video')
FindCodecTag ==
    /\ pc = "cache"
    /\ autoTags' = <<findTagIdByName(taxonomy,
                        IF media.cls = "Serie" THEN serieAliases ELSE filmAliases,
                        media.codec, s_Codec_video)>>
    /\ pc' = "found"
    /\ UNCHANGED <<titleVars, nameVars, inputVars, parseVars, taxonomy, cacheVars, pageVars>>

NextMatcher == FindCodecTag

SpecMatcher == InitMatcher /\ [][NextMatcher]_vars

\* the tags of the hinted category and of its name variants
HintedTags ==
    tagsOf(SelectSeq(taxonomy, LAMBDA cat : norm(cat.name) = norm(s_Codec_video)))

\* the ids of the tags of a list whose normalized name passes one of the
\* three tests for the codec of the media: by name, by alias, by substring
ExactIds(tags) ==
    {tags[i].id : i \in {i \in 1..Len(tags) : norm(tags[i].name) = norm(media.codec)}}

AliasIds(tags) ==
    {tags[i].id : i \in {i \in 1..Len(tags) :
        \E alias \in {<<"a","v","c","/","h","2","6","4","/","x","2","6","4">>, <<"a","v","c">>, <<"h","2","6","4">>} : includes(norm(tags[i].name), alias)}}

SubstringIds(tags) ==
    {tags[i].id : i \in {i \in 1..Len(tags) : includes(norm(tags[i].name), norm(media.codec))}}

\* the ids of the highest tier that has a match
HighestTierIds ==
    IF ExactIds(HintedTags) # {} THEN ExactIds(HintedTags)
    ELSE IF AliasIds(HintedTags) # {} THEN AliasIds(HintedTags)
    ELSE IF SubstringIds(HintedTags) # {} THEN SubstringIds(HintedTags)
    ELSE ExactIds(tagsOf(taxonomy)) \cup AliasIds(tagsOf(taxonomy))
         \cup SubstringIds(tagsOf(taxonomy))

\* C22: findTagIdByName returns a tag of the highest tier that has a match:
\* the name inside the hinted category, then an alias inside it, then the
\* query as a substring inside it, and only then a match across all the
\* categories; no match gives null.  A tag of the hinted category whose
\* name is the query wins over an earlier tag that matches by alias
C22_HighestTierWins ==
    pc = "found" =>
        IF HighestTierIds = {} THEN autoTags = <<0>>
        ELSE autoTags[1] \in HighestTierIds


-----------------------------------------------------------------------------
(* Scenario "tag cache": getAutoTags is called on media objects, the calls *)
(* interleaving at the await of the request for the tag list.  The answer  *)
(* of the server is written to window.LaCaleTagCache; its list of          *)
(* categories is null when the server found no category with a tag, and    *)
(* the answer is marked here with the media type it was requested for.     *)

CallIds == {1, 2}

FrancaisTag == [id |-> 7, name |-> s_Francais]

\* the categories the server lists for a media type
CategoriesOf(mediaType) ==
    <<[name |-> <<"T","y","p","e">>, tags |-> IF mediaType = "serie" THEN <<SerieTag>> ELSE <<FilmTag>>],
      [name |-> <<"L","a","n","g","u","e","s"," ","a","u","d","i","o">>, tags |-> <<FrancaisTag>>],
      [name |-> <<"Q","u","a","l","i","t","<e'>"," ","/"," ","R","<e'>","s","o","l","u","t","i","o","n">>, tags |-> <<FullHdTag>>]>>

\* the answers the server may give to a request for a media type
AnswersFor(mediaType) ==
    {[set |-> TRUE, listed |-> FALSE, categories |-> <<>>, mediaType |-> mediaType],
     [set |-> TRUE, listed |-> TRUE, categories |-> <<>>, mediaType |-> mediaType],
     [set |-> TRUE, listed |-> TRUE, categories |-> CategoriesOf(mediaType),
      mediaType |-> mediaType]}

CacheBags ==
    {[b EXCEPT !.resolution = s_1080p, !.audioLanguages = <<s_FRENCH, s_Francais>>] :
        b \in {newFilm(<<"M","o","v","i","e",".","m","k","v">>), newSerie(<<"S","h","o","w",".","S","0","1">>)}}

InitCache ==
    /\ pc = "page"
    /\ LaCaleTagCache = [set |-> FALSE, listed |-> FALSE, categories |-> <<>>, mediaType |-> ""]
    /\ calls \in [CallIds -> {[pc |-> "idle", media |-> b, tags |-> <<>>, usedType |-> ""] :
                                b \in CacheBags}]
    /\ fetches = 0
    /\ media = NoMedia
    /\ name = <<>>
    /\ langParts = <<>>
    /\ hdrParts = <<>>
    /\ title = <<>>
    /\ once = <<>>
    /\ twice = <<>>
    /\ NoFile
    /\ NoTaxonomy
    /\ NoPage

\* getAutoTags from "const tagCache = window.LaCaleTagCache" on: reading
\* the categories of a cache that has none raises a TypeError
tagged(call, tagCache) ==
    IF ~tagCache.listed THEN [call EXCEPT !.pc = "raised"]
    ELSE [call EXCEPT !.pc = "done",
                      !.tags = getAutoTags(call.media, tagCache.categories),
                      !.usedType = tagCache.mediaType]

\* media.getAutoTags() up to its await: with a cache the call runs to its
\* end, without one it requests the tag list
CallGetAutoTags(i) ==
    /\ calls[i].pc = "idle"
    /\ IF LaCaleTagCache.set
       THEN /\ calls' = [calls EXCEPT ![i] = tagged(@, LaCaleTagCache)]
            /\ UNCHANGED fetches
       ELSE /\ calls' = [calls EXCEPT ![i].pc = "awaiting"]
            /\ fetches' = fetches + 1
    /\ UNCHANGED <<pc, LaCaleTagCache, titleVars, nameVars, inputVars, parseVars, tagVars,
                   pageVars>>

\* the request of call i is answered: the answer becomes the cache and the
\* call runs to its end
TagsFetched(i) ==
    /\ calls[i].pc = "awaiting"
    /\ \E answer \in AnswersFor(calls[i].media.type) :
          /\ LaCaleTagCache' = answer
          /\ calls' = [calls EXCEPT ![i] = tagged(@, answer)]
    /\ UNCHANGED <<pc, fetches, titleVars, nameVars, inputVars, parseVars, tagVars, pageVars>>

\* the request of call i fails: Film.getAutoTags rejects,
\* Serie.getAutoTags returns no tag
TagsFetchFailed(i) ==
    /\ calls[i].pc = "awaiting"
    /\ calls' = [calls EXCEPT ![i].pc = IF calls[i].media.cls = "Serie" THEN "empty" ELSE "failed"]
    /\ UNCHANGED <<pc, LaCaleTagCache, fetches, titleVars, nameVars, inputVars, parseVars,
                   tagVars, pageVars>>

NextCache ==
    \E i \in CallIds : CallGetAutoTags(i) \/ TagsFetched(i) \/ TagsFetchFailed(i)

SpecCache == InitCache /\ [][NextCache]_vars

\* C23: tag resolution never fails: whatever the taxonomy loaded, one with
\* an empty or an absent list of categories included, no call of
\* getAutoTags raises, and the list a call returns holds no null entry and
\* no id twice
C23_ResolutionNeverRaises ==
    \A i \in CallIds :
        /\ calls[i].pc # "raised"
        /\ calls[i].pc = "done" =>
              /\ \A k \in 1..Len(calls[i].tags) : calls[i].tags[k] # 0
              /\ \A k, l \in 1..Len(calls[i].tags) :
                    calls[i].tags[k] = calls[i].tags[l] => k = l


\* no request for the tag list has failed
NoFetchFailed == \A i \in CallIds : calls[i].pc \notin {"failed", "empty"}

\* C26: the tag list is fetched lazily and memoized: in every interleaving
\* of the calls of getAutoTags, two calls started before the first answer
\* included, at most one request is sent as long as none fails, and once an
\* answer is in the cache no call sends a request
C26_AtMostOneFetch ==
    /\ [](NoFetchFailed => fetches <= 1)
    /\ [][LaCaleTagCache.set => fetches' = fetches]_vars

\* C27: every call of getAutoTags matches against the tag list fetched for
\* the media type of its own object, never against the list an earlier
\* call cached for another type
C27_OwnTaxonomy ==
    \A i \in CallIds :
        calls[i].pc = "done" => calls[i].usedType = calls[i].media.type

-----------------------------------------------------------------------------
(* Scenario "parse": release names made of a title followed by up to two   *)
(* tags and an optional video extension, parsed by parseReleaseName.       *)

ParsedTitles == {<<>>, <<"A","b">>, <<"A",".","b">>, <<"A","_","b">>}

FirstTags == {<<>>, <<".","2","0","2","0">>, <<".","S","0","1","E","0","2">>, <<".","V","O","S","T","F","R">>, <<".","W","E","B">>}

SecondTags == {<<>>, <<".","1","9","9","9">>, <<".","S","0","2">>, <<".","V","O","S","T","F","R">>, <<"-","G","R","P">>, <<".","H","D","T","V">>, <<"-","1","0","8","0","p">>}

ParsedNames ==
    {t \o a \o b \o x :
        t \in ParsedTitles, a \in FirstTags, b \in SecondTags, x \in {<<>>, <<".","m","k","v">>}}
    \ {<<>>}

InitParse ==
    /\ pc = "file"
    /\ fileName \in ParsedNames
    /\ report = TextReport
    /\ directoryAnalysis = NoAnalysis
    /\ forcedType = ""
    /\ releaseInfo = <<>>
    /\ mediaInfo = <<>>
    /\ detectedType = "none"
    /\ media = NoMedia
    /\ name = <<>>
    /\ langParts = <<>>
    /\ hdrParts = <<>>
    /\ title = <<>>
    /\ once = <<>>
    /\ twice = <<>>
    /\ NoTaxonomy
    /\ NoCalls
    /\ NoPage

NextParse == ParseReleaseName

SpecParse == InitParse /\ [][NextParse]_vars

\* the name the patterns are applied to: trimmed, without its video
\* extension and without its ebook extension
cleanNameOf(rawName) ==
    LET noVideo == withoutExtension(trim(rawName), extensionIn(trim(rawName), VideoExtensions))
    IN  withoutExtension(noVideo, extensionIn(noVideo, EbookExtensions))

\* position at which patterns.vostfr matches (the separator before the
\* marker, or the marker at the start of the name), 0 for no match
vostfrIndex(s) ==
    LET Sep(c) == c \in {".", "-"} \/ IsSpace(c)
        Ends(p) == p + 6 > Len(s) \/ Sep(s[p + 6])
    IN  firstOf({q \in 1..Len(s) :
                    \/ q = 1 /\ matchesAt(s, 1, s_VOSTFR) /\ Ends(1)
                    \/ Sep(s[q]) /\ matchesAt(s, q + 1, s_VOSTFR) /\ Ends(q + 1)})

\* position of the "-" of a release-group suffix that is not a resolution
groupIndex(s) ==
    IF groupMatch(s) > 0
       /\ toLowerCase(SubSeq(s, groupMatch(s) + 1, Len(s))) \notin ResolutionNames
    THEN groupMatch(s) ELSE 0

\* the positions of the recognized tags of s: season and episode, year,
\* source keyword, release-group suffix, VOSTFR marker
RecognizedTags(s) ==
    {seasonEpisodeMatch(s), seasonMatch(s), episodeMatch(s), yearMatch(s),
     sourceMatch(s), groupIndex(s), vostfrIndex(s)} \ {0}

\* the part of s before its earliest recognized tag, separators folded to
\* spaces and trailing separators trimmed
titleBeforeTags(s) ==
    LET first == firstOf(RecognizedTags(s) \cup {Len(s) + 1})
    IN  trim(stripTrailing(replaceChar(replaceChar(SubSeq(s, 1, first - 1), ".", " "),
                                       "_", " "),
                           {"-", "(", ")"}))

\* C24: the title of a parsed name is the part of the name before the
\* earliest recognized tag (season/episode, year, source keyword,
\* release-group suffix, VOSTFR marker), folded and trimmed, and it holds
\* no recognized tag.
C24_TitleBeforeEarliestTag ==
    pc = "parsed" =>
        /\ releaseInfo.title = titleBeforeTags(cleanNameOf(fileName))
        /\ RecognizedTags(releaseInfo.title) = {}

-----------------------------------------------------------------------------
(* Scenario "pack": a Serie object is constructed and then changed by any  *)
(* sequence of its setters, of applyDirectoryAnalysis, of a restore from   *)
(* its serialisation and of AppState.syncToMedia; pc is the last           *)
(* operation.                                                              *)

\* new Serie(options) on the fields of base; isPackOption is options.isPack,
\* "true", "false" or "undefined"
serieFrom(base, isPackOption) ==
    updateIsPack([base EXCEPT !.cls = "Serie", !.type = "serie",
                              !.isPack = IF isPackOption = "undefined"
                                         THEN base.episodeCount > 1
                                         ELSE isPackOption = "true"])

\* serie.isPack = val
setIsPack(m, val) == [m EXCEPT !.isPack = val]

\* MediaFactory.fromJSON(serie.toJSON()): the type of the serialisation is
\* 'season' exactly when isPack holds
fromJSON(m) ==
    setIsPack(serieFrom(m, IF m.isPack THEN "true" ELSE "false"), m.isPack)

\* AppState.syncToMedia() on a Serie
syncToMedia(m, info) ==
    LET named == applyReleaseInfo(m, info)
        seasoned == IF truthy(info.season) THEN setSeason(named, info.season) ELSE named
    IN  IF truthy(info.episode) THEN setEpisode(seasoned, info.episode) ELSE seasoned

PackSeasons == {<<>>, s_S01}

PackEpisodes == {<<>>, s_E05}

PackCounts == {0, 1, 10}

PackSteps ==
    {"constructed", "season", "episode", "isPack", "analysed", "restored", "synced"}

InitPack ==
    /\ pc = "constructed"
    /\ \E s \in PackSeasons, e \in PackEpisodes, n \in PackCounts,
          p \in {"true", "false", "undefined"} :
          media = serieFrom([EmptyBag EXCEPT !.title = s_Show, !.season = s,
                                             !.episode = e, !.episodeCount = n], p)
    /\ \E s \in PackSeasons, e \in PackEpisodes :
          releaseInfo = [EmptyBag EXCEPT !.title = s_Show, !.season = s, !.episode = e]
    /\ fileName = <<>>
    /\ report = <<>>
    /\ directoryAnalysis = NoAnalysis
    /\ forcedType = ""
    /\ mediaInfo = <<>>
    /\ detectedType = "none"
    /\ name = <<>>
    /\ langParts = <<>>
    /\ hdrParts = <<>>
    /\ title = <<>>
    /\ once = <<>>
    /\ twice = <<>>
    /\ NoTaxonomy
    /\ NoCalls
    /\ NoPage

packFrame ==
    <<name, langParts, hdrParts, titleVars, inputVars, parseVars, tagVars, cacheVars, pageVars>>

\* serie.season = val
SetSerieSeason ==
    /\ pc \in PackSteps
    /\ \E val \in PackSeasons : media' = setSeason(media, val)
    /\ pc' = "season"
    /\ UNCHANGED packFrame

\* serie.episode = val
SetSerieEpisode ==
    /\ pc \in PackSteps
    /\ \E val \in PackEpisodes : media' = setEpisode(media, val)
    /\ pc' = "episode"
    /\ UNCHANGED packFrame

\* serie.isPack = val
SetIsPack ==
    /\ pc \in PackSteps
    /\ \E val \in BOOLEAN : media' = setIsPack(media, val)
    /\ pc' = "isPack"
    /\ UNCHANGED packFrame

\* serie.applyDirectoryAnalysis(analysis)
ApplyDirectoryAnalysis ==
    /\ pc \in PackSteps
    /\ \E analysis \in Analyses \ {NoAnalysis} :
          media' = applyDirectoryAnalysis(media, analysis)
    /\ pc' = "analysed"
    /\ UNCHANGED packFrame

\* MediaFactory.fromJSON(json) on the serialisation of the object
FromJSON ==
    /\ pc \in PackSteps
    /\ media' = fromJSON(media)
    /\ pc' = "restored"
    /\ UNCHANGED packFrame

\* AppState.syncToMedia()
SyncToMedia ==
    /\ pc \in PackSteps
    /\ media' = syncToMedia(media, releaseInfo)
    /\ pc' = "synced"
    /\ UNCHANGED packFrame

NextPack ==
    \/ SetSerieSeason
    \/ SetSerieEpisode
    \/ SetIsPack
    \/ ApplyDirectoryAnalysis
    \/ FromJSON
    \/ SyncToMedia

SpecPack == InitPack /\ [][NextPack]_vars

\* the pack flag of m agrees with its episode designator and its episode
\* count
PackDerived(m) ==
    /\ truthy(m.episode) => ~m.isPack
    /\ (~truthy(m.episode) /\ m.episodeCount > 1) => m.isPack

\* C25: in every state reached by Serie operations the pack flag equals its
\* re-derivation: an episode designator implies that isPack is false, and
\* no episode designator with an episode count above 1 implies that isPack
\* is true.
C25_PackFlagDerived == media.cls = "Serie" => PackDerived(media)

-----------------------------------------------------------------------------
(* The two composers on the same field values.                             *)

\* the media type of the legacy composer is the type of the class object:
\* 'season' exactly when isPack holds
SameVariant == (detectedType = "season") = media.isPack

\* C28: generateReleaseName(info, mediaType) and the generateName() of the
\* Film or Serie built from the same field values return the same string.
C28_ComposersAgree ==
    /\ pc = "named" => name = generateReleaseName(media, "movie")
    /\ pc = "legacy" => name = Film_generateName(media)
    /\ (pc = "serie" /\ SameVariant) => name = generateReleaseName(media, detectedType)
    /\ (pc = "legacySeries" /\ SameVariant) => name = Serie_generateName(media)

-----------------------------------------------------------------------------
(* Scenario "creation": createTorrent on the validation screen.  torrent   *)
(* holds the fields of AppState the handler reads and writes, the state of *)
(* the confirm button, the requests of the current run with their answers, *)
(* and whether the server has marked the selected file as processed.  An   *)
(* NFO is a list of lines [key, value]; every request succeeds or fails.   *)

s_Complete_name == <<"C","o","m","p","l","e","t","e"," ","n","a","m","e">>

\* the runs of createTorrent on one page
Attempts == {1, 2}

\* originalName.match(/\.[^/.]+$/)?.[0] || ''
lastExtension(s) == SubSeq(s, Len(withoutLastExtension(s)) + 1, Len(s))

\* nfoContent.replace(/^(Complete name\s*:\s*).*$/m, `$1${newCompleteName}`)
withCompleteName(nfoContent, newCompleteName) ==
    LET lines == {i \in 1..Len(nfoContent) : nfoContent[i].key = s_Complete_name}
    IN  IF lines = {} THEN nfoContent
        ELSE [nfoContent EXCEPT ![firstOf(lines)].value = newCompleteName]

\* the NFO createTorrent saves
updatedNfo(t) ==
    IF truthy(t.torrentName) /\ truthy(t.nfoContent)
    THEN withCompleteName(t.nfoContent,
                          t.torrentName \o lastExtension(afterLastSlash(t.selectedFile)))
    ELSE t.nfoContent

\* the catch block of createTorrent
caught(t) ==
    [t EXCEPT !.at = "error", !.btnDisabled = FALSE,
              !.answers = Append(t.answers, "failed")]

\* the request req is sent after the answer ok to the previous one
next(t, req) ==
    [t EXCEPT !.at = req, !.requests = Append(t.requests, req),
              !.answers = Append(t.answers, "ok")]

\* after createTorrent: the hardlink if it is enabled and a directory is
\* configured, else the mark
afterTorrent(t) ==
    IF t.settings.enableHardlink /\ Len(t.settings.hardlinkDirs) > 0
    THEN next(t, "createHardlink") ELSE next(t, "markProcessed")

\* a failed hardlink with no try block of its own
afterHardlinkUncaught(t, ok) ==
    IF ok THEN next(t, "markProcessed") ELSE caught(t)

\* the inner try block: a failed hardlink is kept as hardlinkError and the
\* file is marked
afterHardlink(t, ok) ==
    [next(t, "markProcessed") EXCEPT
        !.answers = Append(t.answers, IF ok THEN "ok" ELSE "failed")]

NfoContents ==
    {<<>>,
     <<[key |-> s_Complete_name, value |-> <<"d","i","r","/","M","o","v","i","e",".","m","k","v">>],
       [key |-> <<"F","o","r","m","a","t">>, value |-> <<"M","a","t","r","o","s","k","a">>]>>}

TorrentSettings ==
    {[enableHardlink |-> e, hardlinkDirs |-> d] :
        e \in BOOLEAN, d \in {<<>>, <<<<"/","l","i","n","k","s">>>>}}

InitTorrent ==
    /\ pc = "page"
    /\ \E f \in {<<"d","i","r","/","M","o","v","i","e",".","m","k","v">>, <<"d","i","r","/","S","h","o","w",".","S","0","1">>}, n \in {<<>>, <<"M","o","v","i","e",".","2","0","1","9","-","G","R","P">>},
          c \in NfoContents, s \in TorrentSettings :
          torrent = [at |-> "validation", workflowStep |-> 4, btnDisabled |-> FALSE,
                     selectedFile |-> f, torrentName |-> n, nfoContent |-> c,
                     settings |-> s, createdNfoPath |-> FALSE,
                     createdTorrentPath |-> FALSE, processed |-> FALSE,
                     requests |-> <<>>, answers |-> <<>>, attempt |-> 0]
    /\ media = NoMedia
    /\ name = <<>>
    /\ langParts = <<>>
    /\ hdrParts = <<>>
    /\ title = <<>>
    /\ once = <<>>
    /\ twice = <<>>
    /\ NoFile
    /\ NoTaxonomy
    /\ NoCalls
    /\ AppState = <<>>
    /\ invocations = <<>>

torrentFrame ==
    <<pc, titleVars, nameVars, inputVars, parseVars, tagVars, cacheVars, AppState, invocations>>

\* createTorrent(), up to the request of saveNfo
CreateTorrent ==
    /\ torrent.at \in {"validation", "error"}
    /\ ~torrent.btnDisabled
    /\ torrent.attempt + 1 \in Attempts
    /\ torrent' = [torrent EXCEPT !.at = "saveNfo", !.workflowStep = 5,
                                  !.btnDisabled = TRUE, !.nfoContent = updatedNfo(torrent),
                                  !.requests = <<"saveNfo">>, !.answers = <<>>,
                                  !.attempt = torrent.attempt + 1]
    /\ UNCHANGED torrentFrame

\* await ApiClient.saveNfo(...) ends
SaveNfoAnswered ==
    /\ torrent.at = "saveNfo"
    /\ \E ok \in BOOLEAN :
          torrent' = IF ok
                     THEN [next(torrent, "createTorrent") EXCEPT !.createdNfoPath = TRUE]
                     ELSE caught(torrent)
    /\ UNCHANGED torrentFrame

\* await ApiClient.createTorrent(...) ends
CreateTorrentAnswered ==
    /\ torrent.at = "createTorrent"
    /\ \E ok \in BOOLEAN :
          torrent' = IF ok
                     THEN [afterTorrent(torrent) EXCEPT !.createdTorrentPath = TRUE]
                     ELSE caught(torrent)
    /\ UNCHANGED torrentFrame

\* await ApiClient.createHardlink(...) ends
CreateHardlinkAnswered ==
    /\ torrent.at = "createHardlink"
    /\ \E ok \in BOOLEAN : torrent' = afterHardlink(torrent, ok)
    /\ UNCHANGED torrentFrame

\* await ApiClient.markProcessed(...) ends: the result is shown and the
\* timer of goToStep(6) is set
MarkProcessedAnswered ==
    /\ torrent.at = "markProcessed"
    /\ \E ok \in BOOLEAN :
          torrent' = IF ok
                     THEN [torrent EXCEPT !.at = "result", !.processed = TRUE,
                                          !.answers = Append(torrent.answers, "ok")]
                     ELSE caught(torrent)
    /\ UNCHANGED torrentFrame

\* setTimeout(() => goToStep(6), 1000) fires
GoToStep6 ==
    /\ torrent.at = "result"
    /\ torrent' = [torrent EXCEPT !.at = "step6", !.workflowStep = 6]
    /\ UNCHANGED torrentFrame

NextTorrent ==
    \/ CreateTorrent
    \/ SaveNfoAnswered
    \/ CreateTorrentAnswered
    \/ CreateHardlinkAnswered
    \/ MarkProcessedAnswered
    \/ GoToStep6

SpecTorrent == InitTorrent /\ [][NextTorrent]_vars

\* the request req of the current run has been sent
Sent(t, req) == \E i \in 1..Len(t.requests) : t.requests[i] = req

\* the requests of a run, in the order of the specification
RequestOrder(t) ==
    <<"saveNfo", "createTorrent">>
    \o (IF Sent(t, "createHardlink") THEN <<"createHardlink">> ELSE <<>>)
    \o <<"markProcessed">>

\* the answer to the request req of the current run, "none" before it
AnswerTo(t, req) ==
    LET answered == {i \in 1..Len(t.answers) : t.requests[i] = req}
    IN  IF answered = {} THEN "none" ELSE t.answers[firstOf(answered)]

\* C29: the requests of createTorrent are sent in the order saveNfo,
\* createTorrent, hardlink (optional), markProcessed, and step 6 comes last;
\* the file is marked only after the NFO save and the torrent creation of
\* the run succeeded; a failure of either leaves the file unmarked, the
\* workflow on step 5 and the confirm button enabled; a failed hardlink
\* alone is followed by the mark and does not prevent step 6.
C29_CreationOrdered ==
    /\ startsWith(RequestOrder(torrent), torrent.requests)
    /\ torrent.workflowStep = 6 =>
          torrent.requests = RequestOrder(torrent) /\ torrent.processed
    /\ torrent.processed =>
          AnswerTo(torrent, "saveNfo") = "ok" /\ AnswerTo(torrent, "createTorrent") = "ok"
    /\ "failed" \in {AnswerTo(torrent, "saveNfo"), AnswerTo(torrent, "createTorrent")} =>
          /\ ~torrent.processed
          /\ torrent.workflowStep = 5
          /\ ~torrent.btnDisabled
    /\ AnswerTo(torrent, "createHardlink") = "failed" =>
          /\ Sent(torrent, "markProcessed")
          /\ AnswerTo(torrent, "markProcessed") = "ok" =>
                torrent.processed /\ torrent.at \in {"result", "step6"}

\* a run whose hardlink failed has marked the file and reached step 6
C29_Witness ==
    /\ torrent.workflowStep = 6
    /\ torrent.processed
    /\ AnswerTo(torrent, "createHardlink") = "failed"

-----------------------------------------------------------------------------
(* Scenario "starts": startWorkflow is invoked for an item A and then for  *)
(* an item B, each invocation awaiting the analysis of its own path.       *)
(* AppState holds the fields startWorkflow writes; invocations holds, for  *)
(* each invocation, its arguments, its position and the answer it got.     *)

\* the answer of analyzeDirectory for a file
FileAnalysis ==
    [present |-> TRUE, isDirectory |-> FALSE, isSeriesPack |-> FALSE,
     episodeCount |-> 0, detectedSeason |-> <<>>]

\* the answer of analyzeDirectory for a directory of ten episodes of a season
PackAnalysis ==
    [present |-> TRUE, isDirectory |-> TRUE, isSeriesPack |-> TRUE,
     episodeCount |-> 10, detectedSeason |-> s_S01]

\* a rejected analyzeDirectory
FailedAnalysis ==
    [present |-> FALSE, isDirectory |-> FALSE, isSeriesPack |-> FALSE,
     episodeCount |-> 0, detectedSeason |-> <<>>]

\* the items of the file listing: path, name, media type of the listing
\* and analysis of the path
WorkflowItems ==
    {[path |-> <<"/","d","a","t","a","/","M","o","v","i","e",".","2","0","1","9",".","m","k","v">>, name |-> <<"M","o","v","i","e",".","2","0","1","9",".","m","k","v">>, mediaType |-> "",
      analysis |-> FileAnalysis],
     [path |-> <<"/","d","a","t","a","/","S","h","o","w">>, name |-> <<"S","h","o","w">>, mediaType |-> "",
      analysis |-> PackAnalysis],
     [path |-> <<"/","d","a","t","a","/","S","h","o","w",".","S","0","2","E","0","5",".","m","k","v">>, name |-> <<"S","h","o","w",".","S","0","2","E","0","5",".","m","k","v">>, mediaType |-> "",
      analysis |-> FileAnalysis],
     [path |-> <<"/","d","a","t","a","/","B","o","o","k",".","e","p","u","b">>, name |-> <<"B","o","o","k",".","e","p","u","b">>, mediaType |-> "ebook",
      analysis |-> FileAnalysis]}

\* the invocations: 1 is for item A, 2 for item B
StartIds == {1, 2}

InitStarts ==
    /\ pc = "page"
    /\ AppState = [selectedFile |-> <<>>, releaseInfo |-> EmptyBag, mediaType |-> "",
                   torrentName |-> <<>>]
    /\ \E a \in WorkflowItems, b \in WorkflowItems :
          /\ a # b
          /\ invocations =
                [i \in StartIds |->
                    [at |-> "idle", item |-> IF i = 1 THEN a ELSE b,
                     answer |-> FailedAnalysis, overlapped |-> FALSE]]
    /\ torrent = <<>>
    /\ media = NoMedia
    /\ name = <<>>
    /\ langParts = <<>>
    /\ hdrParts = <<>>
    /\ title = <<>>
    /\ once = <<>>
    /\ twice = <<>>
    /\ NoFile
    /\ NoTaxonomy
    /\ NoCalls

startsFrame ==
    <<pc, titleVars, nameVars, inputVars, parseVars, tagVars, cacheVars, torrent>>

\* AppState after the continuation of startWorkflow(path, name, mediaType)
\* has read the answer analysis
started(state, item, analysis) ==
    LET info == withAnalysis(state.releaseInfo, analysis)
        type == selectedType(info, analysis, item.mediaType)
    IN  [state EXCEPT
            !.releaseInfo = info,
            !.mediaType = type,
            !.torrentName = orName(generateReleaseName(info, type),
                                   withoutLastExtension(item.name))]

\* startWorkflow(path, name, mediaType) up to its await; the invocation for
\* B starts after the one for A has
StartItem(i) ==
    /\ invocations[i].at = "idle"
    /\ i = 2 => invocations[1].at # "idle"
    /\ AppState' = [AppState EXCEPT !.selectedFile = invocations[i].item.path,
                                    !.releaseInfo = parseReleaseName(invocations[i].item.name)]
    /\ invocations' = [invocations EXCEPT
                          ![i].at = "awaiting",
                          ![i].overlapped = (i = 2 /\ invocations[1].at = "awaiting")]
    /\ UNCHANGED startsFrame

\* await ApiClient.analyzeDirectory(path) ends, with the analysis of the
\* path or with a failure, and startWorkflow runs to its end
AnalysisAnswered(i) ==
    /\ invocations[i].at = "awaiting"
    /\ \E answer \in {invocations[i].item.analysis, FailedAnalysis} :
          /\ AppState' = started(AppState, invocations[i].item, answer)
          /\ invocations' = [invocations EXCEPT ![i].at = "finished", ![i].answer = answer]
    /\ UNCHANGED startsFrame

NextStarts == \E i \in StartIds : StartItem(i) \/ AnalysisAnswered(i)

SpecStarts == InitStarts /\ [][NextStarts]_vars

\* AppState as one invocation for the item alone leaves it
AloneState(item, analysis) ==
    started([selectedFile |-> item.path, releaseInfo |-> parseReleaseName(item.name),
             mediaType |-> "", torrentName |-> <<>>], item, analysis)

BothFinished == \A i \in StartIds : invocations[i].at = "finished"

\* C30: when startWorkflow is invoked for B while the invocation for A
\* awaits its analysis, then once both have finished releaseInfo, mediaType
\* and torrentName are those derived from the selected file (B) alone.
C30_NoMixedItems ==
    (BothFinished /\ invocations[2].overlapped) =>
        /\ AppState.selectedFile = invocations[2].item.path
        /\ AppState = AloneState(invocations[2].item, invocations[2].answer)

====
